---- MODULE Spec2Model ----
(***************************************************************************)
(* The CSP solver of "Problem Set 2/CSP_solver.py": 1-consistency, the MRV *)
(* and LRV heuristics, forward checking and the backtracking search of     *)
(* solve, as a state machine over an explicit call stack; the parking      *)
(* problem of "Problem Set 1/parking.py"; the snake environment and the    *)
(* value iteration agent of "Problem Set 3".                               *)
(*   Spec             one solve call on every problem of the family        *)
(*   SpecTwice        two successive solve calls on one problem object     *)
(*   SpecCalls        one direct call of MRV, LRV or forward checking      *)
(*   SpecConsistency  one_consistency called once and once more            *)
(*   SpecParking      get_initial_state and get_successor calls            *)
(*   SpecSnake        episodes of reset and step                           *)
(*   SpecTrain        train(M), train(N) on one agent, train(M + N) on     *)
(*                    another                                              *)
(* Binary constraints join two different variables.                        *)
(***************************************************************************)
EXTENDS Integers, Sequences, FiniteSets, TLC

\* ------------------------------------------------------------------ bounds
\* Values are the integers 0..MaxVal.
MaxVal == 1
\* A problem holds at most MaxCons constraints.
MaxCons == 4

Values == 0..MaxVal

\* ---------------------------------------------------------- problem inputs
Vars == {"A", "B", "C"}

\* Declaration orders of the variables (problem.variables); the second one
\* differs from the alphabetical order of the names.
VarOrders == {<<"A", "B", "C">>, <<"C", "A", "B">>}

\* Initial domains: any set of values, the empty one included.
DomChoices == SUBSET Values

Unary(v, c) == [kind |-> "unary", vars |-> <<v>>, cond |-> c]
Binary(v, w, c) == [kind |-> "binary", vars |-> <<v, w>>, cond |-> c]

\* The constraints a problem is built from; a problem's constraint list is a
\* subsequence of this one.
Catalog ==
  << Binary("A", "B", "neq"),
     Unary("A", "nonzero"),
     Binary("B", "C", "neq"),
     Binary("C", "A", "neq"),
     Unary("B", "nonzero"),
     Binary("A", "B", "le"),
     Binary("C", "B", "lt"),
     Unary("C", "nonzero") >>

RECURSIVE SubSeqOf(_, _, _)
\* The elements of s at the indices in idx, from index i on, in s's order.
SubSeqOf(s, idx, i) ==
  IF i > Len(s) THEN <<>>
  ELSE (IF i \in idx THEN <<s[i]>> ELSE <<>>) \o SubSeqOf(s, idx, i + 1)

ConstraintLists ==
  {SubSeqOf(Catalog, idx, 1) :
     idx \in {I \in SUBSET (1..Len(Catalog)) : Cardinality(I) <= MaxCons}}

\* ----------------------------------------------- constraints (CSP module)
\* The predicate a constraint carries.
UnaryCondition(c, x) ==
  CASE c.cond = "nonzero" -> x # 0
    [] OTHER -> FALSE

BinaryCondition(c, x, y) ==
  CASE c.cond = "neq" -> x # y
    [] c.cond = "lt" -> x < y
    [] c.cond = "le" -> x <= y
    [] OTHER -> FALSE

\* BinaryConstraint.is_satisfied: the predicate on the values of the
\* constraint's two variables, in the order of its variable slots.
IsSatisfied(c, assignment) ==
  BinaryCondition(c, assignment[c.vars[1]], assignment[c.vars[2]])

\* Problem.is_complete: every declared variable is assigned.
IsComplete(vs, assignment) ==
  \A i \in 1..Len(vs) : vs[i] \in DOMAIN assignment

\* The "no solution" sentinel and a returned assignment.
None == <<>>
Some(a) == <<a>>

\* --------------------------------------------------------- one_consistency
RECURSIVE one_consistency_loop(_, _, _, _, _)
\* The loop over problem.constraints from index i on: a constraint that is
\* not unary is kept, a unary one filters its variable's current domain; an
\* empty result clears solvable and the loop goes on.
one_consistency_loop(cons, i, doms, remaining, solvable) ==
  IF i > Len(cons)
  THEN [domains |-> doms, constraints |-> remaining, solvable |-> solvable]
  ELSE IF cons[i].kind # "unary"
       THEN one_consistency_loop(cons, i + 1, doms, Append(remaining, cons[i]),
                                 solvable)
       ELSE LET variable == cons[i].vars[1]
                new_domain ==
                  {value \in doms[variable] : UnaryCondition(cons[i], value)}
            IN  one_consistency_loop(cons, i + 1,
                                     [doms EXCEPT ![variable] = new_domain],
                                     remaining,
                                     solvable /\ new_domain # {})

\* A 1-consistency that never reports an empty domain.
one_consistency_never_fails(doms, cons) ==
  [one_consistency_loop(cons, 1, doms, <<>>, TRUE) EXCEPT !.solvable = TRUE]

\* A 1-consistency that leaves the unary constraints in problem.constraints.
one_consistency_keeps_unary(doms, cons) ==
  [one_consistency_loop(cons, 1, doms, <<>>, TRUE) EXCEPT !.constraints = cons]

\* A 1-consistency that reports any empty domain, filtered or not.
one_consistency_any_empty(doms, cons) ==
  LET oc == one_consistency_loop(cons, 1, doms, <<>>, TRUE)
  IN  [oc EXCEPT !.solvable = \A v \in DOMAIN oc.domains : oc.domains[v] # {}]

\* one_consistency(problem): the new problem.domains and problem.constraints
\* and the value returned.
one_consistency(doms, cons) ==
  one_consistency_loop(cons, 1, doms, <<>>, TRUE)

\* ------------------------------------------------ minimum_remaining_values
\* The (len(domains[variable]), index) pairs of the declared variables that
\* are keys of the snapshot.
MRVKeys(vs, doms) ==
  {<<Cardinality(doms[vs[i]]), i>> :
     i \in {j \in 1..Len(vs) : vs[j] \in DOMAIN doms}}

\* An MRV whose ties go to the variable declared last.
minimum_remaining_values_last(vs, doms) ==
  LET t == CHOOSE t \in MRVKeys(vs, doms) :
             \A u \in MRVKeys(vs, doms) :
               t[1] < u[1] \/ (t[1] = u[1] /\ t[2] >= u[2])
  IN  vs[t[2]]

\* min() over the tuples (len, index, variable): the index is unique, so the
\* order is decided by the length and then the index.
minimum_remaining_values(vs, doms) ==
  LET t == CHOOSE t \in MRVKeys(vs, doms) :
             \A u \in MRVKeys(vs, doms) :
               t[1] < u[1] \/ (t[1] = u[1] /\ t[2] <= u[2])
  IN  vs[t[2]]

\* -------------------------------------------------------- forward_checking
\* The other variable of a binary constraint (lines 72 and 138).
OtherVariable(c, variable) ==
  IF c.vars[2] = variable THEN c.vars[1] ELSE c.vars[2]

\* The hypothetical assignment {variable: value, other: other_value}.
Pair(variable, value, other, other_value) ==
  [v \in {variable, other} |-> IF v = other THEN other_value ELSE value]

RECURSIVE forward_checking_loop(_, _, _, _, _)
\* The loop over problem.constraints from index i on (lines 60-102): a
\* constraint that is not binary, does not involve the assigned variable or
\* whose other variable is no key of the snapshot is skipped; otherwise the
\* other variable's domain keeps the values that satisfy the constraint, and
\* an empty domain ends the call with False.
forward_checking_loop(cons, i, x, a, doms) ==
  IF i > Len(cons) THEN [ok |-> TRUE, domains |-> doms]
  ELSE IF Len(cons[i].vars) # 2 \/ x \notin {cons[i].vars[1], cons[i].vars[2]}
       THEN forward_checking_loop(cons, i + 1, x, a, doms)
       ELSE LET other_variable == OtherVariable(cons[i], x) IN
            IF other_variable \notin DOMAIN doms
            THEN forward_checking_loop(cons, i + 1, x, a, doms)
            ELSE LET other_domain ==
                       {other_value \in doms[other_variable] :
                          IsSatisfied(cons[i],
                                      Pair(x, a, other_variable, other_value))}
                     pruned == [doms EXCEPT ![other_variable] = other_domain]
                 IN  IF other_domain = {}
                     THEN [ok |-> FALSE, domains |-> pruned]
                     ELSE forward_checking_loop(cons, i + 1, x, a, pruned)

RECURSIVE forward_checking_all(_, _, _, _, _)
\* The same loop without the return at the first emptied domain.
forward_checking_all(cons, i, x, a, doms) ==
  IF i > Len(cons)
  THEN [ok |-> \A n \in DOMAIN doms : doms[n] # {}, domains |-> doms]
  ELSE IF Len(cons[i].vars) # 2 \/ x \notin {cons[i].vars[1], cons[i].vars[2]}
          \/ OtherVariable(cons[i], x) \notin DOMAIN doms
       THEN forward_checking_all(cons, i + 1, x, a, doms)
       ELSE LET other_variable == OtherVariable(cons[i], x) IN
            forward_checking_all(cons, i + 1, x, a,
              [doms EXCEPT ![other_variable] =
                 {other_value \in doms[other_variable] :
                    IsSatisfied(cons[i],
                                Pair(x, a, other_variable, other_value))}])

\* A forward checking that goes through every constraint and fails at the
\* end if some domain of the snapshot is empty.
forward_checking_no_short_circuit(cons, x, a, doms) ==
  forward_checking_all(cons, 1, x, a, doms)

\* A forward checking that prunes only through the constraints whose first
\* slot holds the assigned variable.
forward_checking_first_slot(cons, x, a, doms) ==
  forward_checking_loop(
    SelectSeq(cons, LAMBDA c : Len(c.vars) = 2 /\ c.vars[1] = x),
    1, x, a, doms)

\* forward_checking(problem, assigned_variable, assigned_value, domains):
\* the value returned and the snapshot as the call leaves it.
forward_checking(cons, x, a, doms) ==
  forward_checking_loop(cons, 1, x, a, doms)

\* ------------------------------------------------ least_restraining_values
RECURSIVE RestraintCount(_, _, _, _, _)
\* restraint_count of one value: the loop over problem.constraints from
\* index i on (lines 127-150).
RestraintCount(cons, i, x, value, doms) ==
  IF i > Len(cons) THEN 0
  ELSE IF Len(cons[i].vars) # 2 \/ x \notin {cons[i].vars[1], cons[i].vars[2]}
       THEN RestraintCount(cons, i + 1, x, value, doms)
       ELSE LET other_variable == OtherVariable(cons[i], x) IN
            IF other_variable \notin DOMAIN doms
            THEN RestraintCount(cons, i + 1, x, value, doms)
            ELSE Cardinality(
                   {other_value \in doms[other_variable] :
                      ~IsSatisfied(cons[i],
                                   Pair(x, value, other_variable, other_value))})
                 + RestraintCount(cons, i + 1, x, value, doms)

RECURSIVE SortScored(_)
\* sort(key=(score, value)) of a set of (score, value) pairs, as the values.
SortScored(scored) ==
  IF scored = {} THEN <<>>
  ELSE LET m == CHOOSE p \in scored :
                  \A q \in scored :
                    p[1] < q[1] \/ (p[1] = q[1] /\ p[2] <= q[2])
       IN  <<m[2]>> \o SortScored(scored \ {m})

\* An LRV that orders the values by their natural order alone.
least_restraining_values_unscored(cons, x, doms) ==
  SortScored({<<0, value>> : value \in doms[x]})

\* least_restraining_values(problem, variable_to_assign, domains).
least_restraining_values(cons, x, doms) ==
  SortScored({<<RestraintCount(cons, 1, x, value, doms), value>> :
                value \in doms[x]})


VARIABLES
  variables,        \* problem.variables
  domains,          \* problem.domains
  constraints,      \* problem.constraints
  origDomains,      \* the domains of the problem as it was given
  origConstraints,  \* the constraints of the problem as it was given
  pc,               \* where the program is: "start", "search", "done",
                    \* "raised"; "call", "called"; "once", "twice"; "lot",
                    \* "driving"; "snake"; "agent", "first", "second", "both";
                    \* "text", "problem"; "game", "minimax", "alphabeta"
  stack,            \* the backtrack calls in progress, innermost last
  ret,              \* the value the last finished backtrack call returned
  result,           \* what solve returned
  checked,          \* the assignments is_complete was evaluated on, in order
  rejected,         \* the assignments forward_checking returned False for
  fcCalls,          \* how often forward_checking was called
  fcPassed,         \* how often forward_checking returned True
  lastFC,           \* the last forward_checking call: arguments and outcome,
                    \* and the assignment the snapshot was built for
  run,              \* 1 in the first solve call, 2 in the second
  firstResult,      \* what the first solve call returned
  firstChecked,     \* the is_complete evaluations of the first solve call
  call,             \* a direct call of a heuristic or of one_consistency:
                    \* arguments and result
  \* ParkingProblem ("Problem Set 1/parking.py")
  passages,         \* problem.passages: the points a car can be at
  cars,             \* problem.cars: the point of every car at the start
  state,            \* the state object the caller holds and passes in
  lastMove,         \* the last get_successor call: the action, the state as
                    \* it was passed in and the state returned
  \* SnakeEnv ("Problem Set 3/snake.py")
  width,            \* env.width
  height,           \* env.height
  snake,            \* env.snake: the snake's points, head first
  direction,        \* env.direction
  apple,            \* env.apple
  outcome,          \* what the last step call was given and returned
  \* ValueIterationAgent ("Problem Set 3/value_iteration.py")
  mdp,              \* agent.mdp
  plan,             \* the iteration counts and the tolerance of the calls
  utilities,        \* agent.utilities of the agent trained in two calls
  updates,          \* how often update was applied to that agent
  whole,            \* utilities and updates of the agent trained in one call
  \* CryptArithmeticProblem ("Problem Set 2/cryptarithmetic.py"); from_text
  \* builds problem.variables, problem.domains and problem.constraints
  text,             \* the puzzle as written: the three words of the text
  LHS,              \* problem.LHS
  RHS,              \* problem.RHS
  digits,           \* a digit for every letter that makes the addition true
  \* minimax and alphabeta ("Problem Set 2/search.py")
  game,             \* the game: what every state of its tree is
  searched          \* the calls made on the game: max_depth and what minimax
                    \* and alphabeta returned

vars ==
  << variables, domains, constraints, origDomains, origConstraints, pc, stack,
     ret, result, checked, rejected, fcCalls, fcPassed, lastFC, run,
     firstResult, firstChecked, call, passages, cars, state, lastMove, width,
     height, snake, direction, apple, outcome, mdp, plan, utilities, updates,
     whole, text, LHS, RHS, digits, game, searched >>

problem == << variables, domains, constraints >>
given == << origDomains, origConstraints >>
first == << run, firstResult, firstChecked >>
counters == << checked, rejected, fcCalls, fcPassed, lastFC >>

\* The state of the solver but for pc, which every program uses.
solver == << problem, given, stack, ret, result, counters, first, call >>
lot == << passages, cars, state, lastMove >>
env == << width, height, snake, direction, apple, outcome >>
agent == << mdp, plan, utilities, updates, whole >>
crypt == << text, LHS, RHS, digits >>
tree == << game, searched >>

\* What a step of the solver leaves alone.
outside == << lot, env, agent, crypt, tree >>

\* ------------------------------------------------------------------- state
\* A backtrack call that has just been entered.
Frame(assignment, current_domains) ==
  [assignment |-> assignment, domains |-> current_domains, variable |-> "",
   ordered |-> <<>>, idx |-> 0, phase |-> "check"]

NoCall == [called |-> FALSE, x |-> "", a |-> 0, assignment |-> <<>>,
           before |-> <<>>, after |-> <<>>, ok |-> TRUE]

NoHeuristic == [fn |-> "none", domains |-> <<>>, x |-> "", ordered |-> <<>>]

NoReturn == [pending |-> FALSE, value |-> None]
Returned(value) == [pending |-> TRUE, value |-> value]

Top == stack[Len(stack)]
Pop == SubSeq(stack, 1, Len(stack) - 1)

\* No get_successor call yet, no step call yet.
NoMove == [called |-> FALSE, action |-> <<>>, before |-> <<>>,
           returned |-> <<>>]
NoOutcome == [action |-> "", observation |-> <<>>, reward |-> 0,
              done |-> FALSE]

\* The programs that take no part in a specification: no parking problem,
\* no snake environment, no agent, no CSP.
NoLot ==
  /\ passages = {}
  /\ cars = <<>>
  /\ state = <<>>
  /\ lastMove = NoMove

NoEnv ==
  /\ width = 0
  /\ height = 0
  /\ snake = <<>>
  /\ direction = "LEFT"
  /\ apple = None
  /\ outcome = NoOutcome

NoAgent ==
  /\ mdp = <<>>
  /\ plan = <<>>
  /\ utilities = <<>>
  /\ updates = 0
  /\ whole = <<>>

NoCrypt ==
  /\ text = <<>>
  /\ LHS = <<>>
  /\ RHS = <<>>
  /\ digits = <<>>

NoTree ==
  /\ game = <<>>
  /\ searched = <<>>

NoSolver ==
  /\ variables = <<>>
  /\ origDomains = <<>>
  /\ origConstraints = <<>>
  /\ domains = <<>>
  /\ constraints = <<>>
  /\ stack = <<>>
  /\ ret = NoReturn
  /\ result = None
  /\ checked = <<>>
  /\ rejected = {}
  /\ fcCalls = 0
  /\ fcPassed = 0
  /\ lastFC = NoCall
  /\ run = 1
  /\ firstResult = None
  /\ firstChecked = <<>>
  /\ call = NoHeuristic

\* The declared variables, as a set.
Declared == {variables[i] : i \in 1..Len(variables)}

\* A problem of the family: the three variables in one of the declaration
\* orders, or no variable at all; a domain for every declared variable;
\* constraints on declared variables only.
Init ==
  /\ variables \in VarOrders \cup {<<>>}
  /\ origDomains \in [Declared -> DomChoices]
  /\ origConstraints \in
       {cs \in ConstraintLists :
          \A i \in 1..Len(cs) :
            \A k \in 1..Len(cs[i].vars) : cs[i].vars[k] \in Declared}
  /\ domains = origDomains
  /\ constraints = origConstraints
  /\ pc = "start"
  /\ stack = <<>>
  /\ ret = NoReturn
  /\ result = None
  /\ checked = <<>>
  /\ rejected = {}
  /\ fcCalls = 0
  /\ fcPassed = 0
  /\ lastFC = NoCall
  /\ run = 1
  /\ firstResult = None
  /\ firstChecked = <<>>
  /\ call = NoHeuristic
  /\ NoLot
  /\ NoEnv
  /\ NoAgent
  /\ NoCrypt
  /\ NoTree

\* ------------------------------------------------------------------- solve
\* solve, lines 175-182 and 223: 1-consistency; on failure solve returns
\* None, otherwise backtrack is called with the empty assignment and a copy
\* of the domains of every declared variable.
SolveStart ==
  /\ pc = "start"
  /\ LET oc == one_consistency(domains, constraints) IN
       /\ domains' = oc.domains
       /\ constraints' = oc.constraints
       /\ IF ~oc.solvable
          THEN /\ result' = None
               /\ pc' = "done"
               /\ stack' = <<>>
          ELSE /\ result' = result
               /\ pc' = "search"
               /\ stack' =
                    << Frame(<<>>,
                             [v \in {variables[i] : i \in 1..Len(variables)}
                                |-> oc.domains[v]]) >>
  /\ UNCHANGED << outside, variables, given, ret, counters, first, call >>

\* backtrack, lines 187-188: is_complete on the call's assignment; a complete
\* assignment is returned.
CheckComplete ==
  /\ pc = "search"
  /\ stack # <<>>
  /\ Top.phase = "check"
  /\ checked' = Append(checked, Top.assignment)
  /\ IF IsComplete(variables, Top.assignment)
     THEN /\ ret' = Returned(Some(Top.assignment))
          /\ stack' = Pop
     ELSE /\ ret' = ret
          /\ stack' = [stack EXCEPT ![Len(stack)].phase = "select"]
  /\ UNCHANGED << outside, problem, given, pc, result, rejected, fcCalls, fcPassed,
                  lastFC, first, call >>

\* A selection that takes the chosen variable out of the snapshot it was
\* handed.
SelectAndOrderTakesKey ==
  /\ pc = "search"
  /\ stack # <<>>
  /\ Top.phase = "select"
  /\ IF MRVKeys(variables, Top.domains) = {}
     THEN /\ pc' = "raised"
          /\ stack' = stack
     ELSE LET variable == minimum_remaining_values(variables, Top.domains) IN
          /\ pc' = pc
          /\ stack' =
               [stack EXCEPT ![Len(stack)] =
                  [@ EXCEPT !.variable = variable,
                            !.ordered = least_restraining_values(
                                          constraints, variable, Top.domains),
                            !.domains = [k \in DOMAIN Top.domains \ {variable}
                                           |-> Top.domains[k]],
                            !.idx = 1,
                            !.phase = "loop"]]
  /\ UNCHANGED << outside, problem, given, ret, result, counters, first, call >>

\* A selection that tries the values of the variable in ascending order.
SelectAndOrderAscending ==
  /\ pc = "search"
  /\ stack # <<>>
  /\ Top.phase = "select"
  /\ IF MRVKeys(variables, Top.domains) = {}
     THEN /\ pc' = "raised"
          /\ stack' = stack
     ELSE LET variable == minimum_remaining_values(variables, Top.domains) IN
          /\ pc' = pc
          /\ stack' =
               [stack EXCEPT ![Len(stack)] =
                  [@ EXCEPT !.variable = variable,
                            !.ordered = least_restraining_values_unscored(
                                          constraints, variable, Top.domains),
                            !.idx = 1,
                            !.phase = "loop"]]
  /\ UNCHANGED << outside, problem, given, ret, result, counters, first,
                  call >>

\* backtrack, lines 192-196: the variable by MRV and its values by LRV, both
\* on the call's snapshot. min() of no tuples raises.
SelectAndOrder ==
  /\ pc = "search"
  /\ stack # <<>>
  /\ Top.phase = "select"
  /\ IF MRVKeys(variables, Top.domains) = {}
     THEN /\ pc' = "raised"
          /\ stack' = stack
     ELSE LET variable == minimum_remaining_values(variables, Top.domains) IN
          /\ pc' = pc
          /\ stack' =
               [stack EXCEPT ![Len(stack)] =
                  [@ EXCEPT !.variable = variable,
                            !.ordered = least_restraining_values(
                                          constraints, variable, Top.domains),
                            !.idx = 1,
                            !.phase = "loop"]]
  /\ UNCHANGED << outside, problem, given, ret, result, counters, first, call >>

\* A value loop that recurses whatever forward checking returned.
TryValueRecurseAlways ==
  /\ pc = "search"
  /\ stack # <<>>
  /\ Top.phase = "loop"
  /\ Top.idx <= Len(Top.ordered)
  /\ LET variable == Top.variable
         value == Top.ordered[Top.idx]
         new_assignment ==
           [k \in DOMAIN Top.assignment \cup {variable} |->
              IF k = variable THEN value ELSE Top.assignment[k]]
         new_domains ==
           [k \in DOMAIN Top.domains \ {variable} |-> Top.domains[k]]
         fc == forward_checking(constraints, variable, value, new_domains)
     IN  /\ lastFC' = [called |-> TRUE, x |-> variable, a |-> value,
                       assignment |-> new_assignment,
                       before |-> new_domains, after |-> fc.domains,
                       ok |-> fc.ok]
         /\ fcCalls' = fcCalls + 1
         /\ stack' = Append([stack EXCEPT ![Len(stack)].phase = "wait"],
                            Frame(new_assignment, fc.domains))
         /\ fcPassed' = IF fc.ok THEN fcPassed + 1 ELSE fcPassed
         /\ rejected' = IF fc.ok THEN rejected
                        ELSE rejected \cup {new_assignment}
  /\ UNCHANGED << outside, problem, given, pc, ret, result, checked, first, call >>

\* A value loop that hands the snapshot on with the assigned variable still
\* among its keys.
TryValueKeepsKey ==
  /\ pc = "search"
  /\ stack # <<>>
  /\ Top.phase = "loop"
  /\ Top.idx <= Len(Top.ordered)
  /\ LET variable == Top.variable
         value == Top.ordered[Top.idx]
         new_assignment ==
           [k \in DOMAIN Top.assignment \cup {variable} |->
              IF k = variable THEN value ELSE Top.assignment[k]]
         new_domains == Top.domains
         fc == forward_checking(constraints, variable, value, new_domains)
     IN  /\ lastFC' = [called |-> TRUE, x |-> variable, a |-> value,
                       assignment |-> new_assignment,
                       before |-> new_domains, after |-> fc.domains,
                       ok |-> fc.ok]
         /\ fcCalls' = fcCalls + 1
         /\ IF fc.ok
            THEN /\ stack' = Append([stack EXCEPT ![Len(stack)].phase = "wait"],
                                    Frame(new_assignment, fc.domains))
                 /\ fcPassed' = fcPassed + 1
                 /\ rejected' = rejected
            ELSE /\ stack' = [stack EXCEPT ![Len(stack)].idx = @ + 1]
                 /\ fcPassed' = fcPassed
                 /\ rejected' = rejected \cup {new_assignment}
  /\ UNCHANGED << outside, problem, given, pc, ret, result, checked, first, call >>

\* A value loop that prunes the snapshot of the call itself: the snapshot
\* handed on is no copy.
TryValueSharesSnapshot ==
  /\ pc = "search"
  /\ stack # <<>>
  /\ Top.phase = "loop"
  /\ Top.idx <= Len(Top.ordered)
  /\ LET variable == Top.variable
         value == Top.ordered[Top.idx]
         new_assignment ==
           [k \in DOMAIN Top.assignment \cup {variable} |->
              IF k = variable THEN value ELSE Top.assignment[k]]
         new_domains ==
           [k \in DOMAIN Top.domains \ {variable} |-> Top.domains[k]]
         fc == forward_checking(constraints, variable, value, new_domains)
         shared == [k \in DOMAIN Top.domains |->
                      IF k \in DOMAIN fc.domains THEN fc.domains[k]
                      ELSE Top.domains[k]]
     IN  /\ lastFC' = [called |-> TRUE, x |-> variable, a |-> value,
                       assignment |-> new_assignment,
                       before |-> new_domains, after |-> fc.domains,
                       ok |-> fc.ok]
         /\ fcCalls' = fcCalls + 1
         /\ IF fc.ok
            THEN /\ stack' = Append([stack EXCEPT ![Len(stack)] =
                                       [@ EXCEPT !.phase = "wait",
                                                 !.domains = shared]],
                                    Frame(new_assignment, fc.domains))
                 /\ fcPassed' = fcPassed + 1
                 /\ rejected' = rejected
            ELSE /\ stack' = [stack EXCEPT ![Len(stack)] =
                                [@ EXCEPT !.idx = @ + 1, !.domains = shared]]
                 /\ fcPassed' = fcPassed
                 /\ rejected' = rejected \cup {new_assignment}
  /\ UNCHANGED << outside, problem, given, pc, ret, result, checked, first,
                  call >>

\* A value loop whose forward checking prunes problem.domains as well.
TryValuePrunesProblem ==
  /\ pc = "search"
  /\ stack # <<>>
  /\ Top.phase = "loop"
  /\ Top.idx <= Len(Top.ordered)
  /\ LET variable == Top.variable
         value == Top.ordered[Top.idx]
         new_assignment ==
           [k \in DOMAIN Top.assignment \cup {variable} |->
              IF k = variable THEN value ELSE Top.assignment[k]]
         new_domains ==
           [k \in DOMAIN Top.domains \ {variable} |-> Top.domains[k]]
         fc == forward_checking(constraints, variable, value, new_domains)
     IN  /\ lastFC' = [called |-> TRUE, x |-> variable, a |-> value,
                       assignment |-> new_assignment,
                       before |-> new_domains, after |-> fc.domains,
                       ok |-> fc.ok]
         /\ fcCalls' = fcCalls + 1
         /\ domains' = [k \in DOMAIN domains |->
                          IF k \in DOMAIN fc.domains THEN fc.domains[k]
                          ELSE domains[k]]
         /\ IF fc.ok
            THEN /\ stack' = Append([stack EXCEPT ![Len(stack)].phase = "wait"],
                                    Frame(new_assignment, fc.domains))
                 /\ fcPassed' = fcPassed + 1
                 /\ rejected' = rejected
            ELSE /\ stack' = [stack EXCEPT ![Len(stack)].idx = @ + 1]
                 /\ fcPassed' = fcPassed
                 /\ rejected' = rejected \cup {new_assignment}
  /\ UNCHANGED << outside, variables, constraints, given, pc, ret, result, checked,
                  first, call >>

\* A loop whose recursive call is handed the caller's assignment, without
\* the value just chosen.
TryValueForgetsValue ==
  /\ pc = "search"
  /\ stack # <<>>
  /\ Top.phase = "loop"
  /\ Top.idx <= Len(Top.ordered)
  /\ LET variable == Top.variable
         value == Top.ordered[Top.idx]
         new_assignment ==
           [k \in DOMAIN Top.assignment \cup {variable} |->
              IF k = variable THEN value ELSE Top.assignment[k]]
         new_domains ==
           [k \in DOMAIN Top.domains \ {variable} |-> Top.domains[k]]
         fc == forward_checking(constraints, variable, value, new_domains)
     IN  /\ lastFC' = [called |-> TRUE, x |-> variable, a |-> value,
                       assignment |-> new_assignment,
                       before |-> new_domains, after |-> fc.domains,
                       ok |-> fc.ok]
         /\ fcCalls' = fcCalls + 1
         /\ IF fc.ok
            THEN /\ stack' = Append([stack EXCEPT ![Len(stack)].phase = "wait"],
                                    Frame(Top.assignment, fc.domains))
                 /\ fcPassed' = fcPassed + 1
                 /\ rejected' = rejected
            ELSE /\ stack' = [stack EXCEPT ![Len(stack)].idx = @ + 1]
                 /\ fcPassed' = fcPassed
                 /\ rejected' = rejected \cup {new_assignment}
  /\ UNCHANGED << outside, problem, given, pc, ret, result, checked, first, call >>

\* backtrack, lines 198-212: the next value of the loop: the new assignment,
\* the copy of the snapshot without the variable, forward checking on the
\* copy and, when it returns True, the recursive call.
TryValue ==
  /\ pc = "search"
  /\ stack # <<>>
  /\ Top.phase = "loop"
  /\ Top.idx <= Len(Top.ordered)
  /\ LET variable == Top.variable
         value == Top.ordered[Top.idx]
         new_assignment ==
           [k \in DOMAIN Top.assignment \cup {variable} |->
              IF k = variable THEN value ELSE Top.assignment[k]]
         new_domains ==
           [k \in DOMAIN Top.domains \ {variable} |-> Top.domains[k]]
         fc == forward_checking(constraints, variable, value, new_domains)
     IN  /\ lastFC' = [called |-> TRUE, x |-> variable, a |-> value,
                       assignment |-> new_assignment,
                       before |-> new_domains, after |-> fc.domains,
                       ok |-> fc.ok]
         /\ fcCalls' = fcCalls + 1
         /\ IF fc.ok
            THEN /\ stack' = Append([stack EXCEPT ![Len(stack)].phase = "wait"],
                                    Frame(new_assignment, fc.domains))
                 /\ fcPassed' = fcPassed + 1
                 /\ rejected' = rejected
            ELSE /\ stack' = [stack EXCEPT ![Len(stack)].idx = @ + 1]
                 /\ fcPassed' = fcPassed
                 /\ rejected' = rejected \cup {new_assignment}
  /\ UNCHANGED << outside, problem, given, pc, ret, result, checked, first, call >>

\* A loop that does not end when the values are used up.
ExhaustedSpins ==
  /\ pc = "search"
  /\ stack # <<>>
  /\ Top.phase = "loop"
  /\ Top.idx > Len(Top.ordered)
  /\ UNCHANGED vars

\* backtrack, lines 198 and 220: the loop is over and the call returns None.
Exhausted ==
  /\ pc = "search"
  /\ stack # <<>>
  /\ Top.phase = "loop"
  /\ Top.idx > Len(Top.ordered)
  /\ ret' = Returned(None)
  /\ stack' = Pop
  /\ UNCHANGED << outside, problem, given, pc, result, counters, first, call >>

\* A caller that goes on with the next value after a recursive call returned
\* an assignment.
PropagateSuccessKeepsSearching ==
  /\ pc = "search"
  /\ ret.pending
  /\ stack # <<>>
  /\ ret.value # None
  /\ ret' = NoReturn
  /\ stack' = [stack EXCEPT ![Len(stack)] =
                 [@ EXCEPT !.idx = @ + 1, !.phase = "loop"]]
  /\ UNCHANGED << outside, problem, given, pc, result, counters, first, call >>

\* backtrack, lines 212-214, a recursive call returned an assignment: the
\* caller returns it.
PropagateSuccess ==
  /\ pc = "search"
  /\ ret.pending
  /\ stack # <<>>
  /\ ret.value # None
  /\ stack' = Pop
  /\ UNCHANGED << outside, problem, given, pc, ret, result, counters, first, call >>

\* A caller that returns None as soon as one recursive call returned None.
ContinueLoopGivesUp ==
  /\ pc = "search"
  /\ ret.pending
  /\ stack # <<>>
  /\ ret.value = None
  /\ stack' = Pop
  /\ UNCHANGED << outside, problem, given, pc, ret, result, counters, first, call >>

\* backtrack, lines 212-213 and 198, a recursive call returned None: the loop
\* goes on with the next value.
ContinueLoop ==
  /\ pc = "search"
  /\ ret.pending
  /\ stack # <<>>
  /\ ret.value = None
  /\ ret' = NoReturn
  /\ stack' = [stack EXCEPT ![Len(stack)] =
                 [@ EXCEPT !.idx = @ + 1, !.phase = "loop"]]
  /\ UNCHANGED << outside, problem, given, pc, result, counters, first, call >>

\* A solve that reports an empty assignment as None.
SolveReturnEmptyIsNone ==
  /\ pc = "search"
  /\ ret.pending
  /\ stack = <<>>
  /\ result' = IF ret.value = Some(<<>>) THEN None ELSE ret.value
  /\ ret' = NoReturn
  /\ pc' = "done"
  /\ UNCHANGED << outside, problem, given, stack, counters, first, call >>

\* solve, line 223: what the root backtrack call returned is what solve
\* returns.
SolveReturn ==
  /\ pc = "search"
  /\ ret.pending
  /\ stack = <<>>
  /\ result' = ret.value
  /\ ret' = NoReturn
  /\ pc' = "done"
  /\ UNCHANGED << outside, problem, given, stack, counters, first, call >>

\* A second solve call on the same problem object, as the first call left it.
SolveAgain ==
  /\ pc = "done"
  /\ run = 1
  /\ run' = 2
  /\ firstResult' = result
  /\ firstChecked' = checked
  /\ pc' = "start"
  /\ result' = None
  /\ checked' = <<>>
  /\ rejected' = {}
  /\ fcCalls' = 0
  /\ fcPassed' = 0
  /\ lastFC' = NoCall
  /\ UNCHANGED << outside, problem, given, stack, ret, call >>

Next ==
  \/ SolveStart
  \/ CheckComplete
  \/ SelectAndOrder
  \/ TryValue
  \/ Exhausted
  \/ PropagateSuccess
  \/ ContinueLoop
  \/ SolveReturn

\* One solve call on every problem of the family.
Spec == Init /\ [][Next]_vars

\* The same call run by an interpreter that executes the next statement as
\* long as there is one: solve is sequential code, nothing else is scheduled.
SpecFair == Spec /\ WF_vars(Next)

NextTwice == Next \/ SolveAgain

\* Two successive solve calls on the same problem object.
SpecTwice == Init /\ [][NextTwice]_vars

\* ------------------------------------------------------------ direct calls
\* The snapshots a heuristic or forward checking can be handed: any set of
\* variables as keys, any set of values as a key's domain.
Snapshots == UNION {[K -> SUBSET Values] : K \in SUBSET Vars}

\* The constraint lists left by 1-consistency: binary constraints only.
BinaryLists ==
  {SelectSeq(cs, LAMBDA c : c.kind = "binary") : cs \in ConstraintLists}

\* A problem after preprocessing, before one direct call of
\* minimum_remaining_values, least_restraining_values or forward_checking.
InitCalls ==
  /\ variables \in VarOrders
  /\ origDomains = [v \in Vars |-> Values]
  /\ origConstraints \in BinaryLists
  /\ domains = origDomains
  /\ constraints = origConstraints
  /\ pc = "call"
  /\ stack = <<>>
  /\ ret = NoReturn
  /\ result = None
  /\ checked = <<>>
  /\ rejected = {}
  /\ fcCalls = 0
  /\ fcPassed = 0
  /\ lastFC = NoCall
  /\ run = 1
  /\ firstResult = None
  /\ firstChecked = <<>>
  /\ call = NoHeuristic
  /\ NoLot
  /\ NoEnv
  /\ NoAgent
  /\ NoCrypt
  /\ NoTree

\* minimum_remaining_values(problem, domains) on a non-empty snapshot.
CallMinimumRemainingValues ==
  /\ pc = "call"
  /\ \E snapshot \in Snapshots :
       /\ DOMAIN snapshot # {}
       /\ call' = [fn |-> "mrv", domains |-> snapshot,
                   x |-> minimum_remaining_values(variables, snapshot),
                   ordered |-> <<>>]
  /\ pc' = "called"
  /\ UNCHANGED << outside, problem, given, stack, ret, result, counters, first >>

\* least_restraining_values(problem, variable_to_assign, domains) for a key
\* of the snapshot.
CallLeastRestrainingValues ==
  /\ pc = "call"
  /\ \E snapshot \in Snapshots :
       \E x \in DOMAIN snapshot :
         call' = [fn |-> "lrv", domains |-> snapshot, x |-> x,
                  ordered |-> least_restraining_values(constraints, x,
                                                       snapshot)]
  /\ pc' = "called"
  /\ UNCHANGED << outside, problem, given, stack, ret, result, counters, first >>

\* forward_checking(problem, assigned_variable, assigned_value, domains) on
\* a snapshot the assigned variable has been removed from.
CallForwardChecking ==
  /\ pc = "call"
  /\ \E snapshot \in Snapshots :
       \E x \in Vars \ DOMAIN snapshot :
         \E a \in Values :
           LET fc == forward_checking(constraints, x, a, snapshot) IN
             lastFC' = [called |-> TRUE, x |-> x, a |-> a,
                        assignment |-> (x :> a),
                        before |-> snapshot, after |-> fc.domains,
                        ok |-> fc.ok]
  /\ pc' = "called"
  /\ UNCHANGED << outside, problem, given, stack, ret, result, checked, rejected,
                  fcCalls, fcPassed, first, call >>

\* one_consistency(problem) on a problem as it was given, and once more on
\* the problem as the first call left it.
CallOneConsistency ==
  /\ pc \in {"start", "once"}
  /\ LET oc == one_consistency(domains, constraints) IN
       /\ domains' = oc.domains
       /\ constraints' = oc.constraints
       /\ call' = [fn |-> "one_consistency", domains |-> domains,
                   constraints |-> constraints, solvable |-> oc.solvable]
  /\ pc' = IF pc = "start" THEN "once" ELSE "twice"
  /\ UNCHANGED << outside, variables, given, stack, ret, result, counters, first >>

\* Direct calls of one_consistency on every problem of the family.
SpecConsistency == Init /\ [][CallOneConsistency]_vars

NextCalls ==
  \/ CallMinimumRemainingValues
  \/ CallLeastRestrainingValues
  \/ CallForwardChecking

\* One direct call of a heuristic or of forward checking on any snapshot.
SpecCalls == InitCalls /\ [][NextCalls]_vars

\* ============================================================ ParkingProblem
\* A parking lot is at most LotWidth cells wide and LotHeight cells high and
\* holds at most MaxCars cars.
LotWidth == 3
LotHeight == 2
MaxCars == 2

\* mathutils: the four directions a car or the snake can move in, and
\* Direction.NONE.
Directions == {"RIGHT", "UP", "LEFT", "DOWN"}
Direction == Directions \cup {"NONE"}

\* Direction.to_vector: y grows downwards.
to_vector(d) ==
  CASE d = "RIGHT" -> <<1, 0>>
    [] d = "UP" -> <<0, -1>>
    [] d = "LEFT" -> <<-1, 0>>
    [] d = "DOWN" -> <<0, 1>>
    [] OTHER -> <<0, 0>>

\* Point.__add__.
Plus(p, v) == <<p[1] + v[1], p[2] + v[2]>>

\* The points of a grid of w columns and h rows.
Cells(w, h) == (0..(w - 1)) \X (0..(h - 1))

\* The lots: the full grid, or the grid with a wall in the top row.
Lots == {Cells(LotWidth, LotHeight) \ walls : walls \in {{}, {<<1, 0>>}}}

\* The cars of a lot: car i at cars[i], i from 0, no two on one point.
Placements(ps) ==
  UNION {{c \in [0..(n - 1) -> ps] : \A i, j \in 0..(n - 1) : i # j => c[i] # c[j]} :
           n \in 1..MaxCars}

\* get_initial_state: a new mapping of every car to its point.
get_initial_state == [i \in DOMAIN cars |-> cars[i]]

\* get_actions(state): the (car, direction) pairs whose next point is a
\* passage that no car is at, as a set.
get_actions(st) ==
  LET occupied_positions == {st[c] : c \in DOMAIN st} IN
    {action \in (DOMAIN st) \X Direction :
       LET next_pos == Plus(st[action[1]], to_vector(action[2])) IN
         next_pos \in passages /\ next_pos \notin occupied_positions}

\* get_successor(state, action): state[car] is assigned in the mapping that
\* was passed in, and that mapping is returned: the argument as the call
\* leaves it and the value returned.
get_successor(st, action) ==
  LET car == action[1]
      moved == [st EXCEPT ![car] = Plus(st[car], to_vector(action[2]))]
  IN  [state |-> moved, returned |-> moved]

InitParking ==
  /\ passages \in Lots
  /\ cars \in Placements(passages)
  /\ state = <<>>
  /\ lastMove = NoMove
  /\ pc = "lot"
  /\ NoSolver
  /\ NoEnv
  /\ NoAgent
  /\ NoCrypt
  /\ NoTree

\* The caller takes the initial state.
GetInitialState ==
  /\ pc = "lot"
  /\ state' = get_initial_state
  /\ pc' = "driving"
  /\ UNCHANGED << passages, cars, lastMove, solver, env, agent, crypt, tree >>

\* The caller passes the state it holds and one of its actions to
\* get_successor.
GetSuccessor ==
  /\ pc = "driving"
  /\ \E action \in get_actions(state) :
       LET gs == get_successor(state, action) IN
         /\ state' = gs.state
         /\ lastMove' = [called |-> TRUE, action |-> action, before |-> state,
                         returned |-> gs.returned]
  /\ UNCHANGED << passages, cars, pc, solver, env, agent, crypt, tree >>

NextParking ==
  \/ GetInitialState
  \/ GetSuccessor

\* The states of a parking problem, reached by get_successor calls.
SpecParking == InitParking /\ [][NextParking]_vars

\* ================================================================== SnakeEnv
\* The grid of the environment is at most MaxWidth by MaxHeight cells.
MaxWidth == 3
MaxHeight == 2

\* __init__ asserts width > 1 or height > 1.
Grids == {g \in (1..MaxWidth) \X (1..MaxHeight) : g[1] > 1 \/ g[2] > 1}

\* The opposite table of actions and step.
opposite(d) ==
  CASE d = "UP" -> "DOWN"
    [] d = "DOWN" -> "UP"
    [] d = "LEFT" -> "RIGHT"
    [] d = "RIGHT" -> "LEFT"

RECURSIVE ListOf(_)
\* The members of a set as a list; the order a set is iterated in is not
\* specified, and no caller relies on it.
ListOf(S) ==
  IF S = {} THEN <<>>
  ELSE LET d == CHOOSE d \in S : TRUE IN <<d>> \o ListOf(S \ {d})

\* An actions that bans the opposite of the current direction only.
actions_opposite_banned ==
  LET all_dirs == {"UP", "DOWN", "LEFT", "RIGHT"}
      banned == {opposite(direction)}
  IN  <<"NONE">> \o ListOf({d \in all_dirs : d \notin banned})

\* actions(): NONE, then the directions that are neither the current
\* direction nor its opposite.
actions ==
  LET all_dirs == {"UP", "DOWN", "LEFT", "RIGHT"}
      banned == {direction, opposite(direction)}
  IN  <<"NONE">> \o ListOf({d \in all_dirs : d \notin banned})

\* The moves table of step: the cell next to head in direction d, wrapped
\* around the grid.
moves(head, d) ==
  CASE d = "UP" -> <<head[1], (head[2] - 1) % height>>
    [] d = "DOWN" -> <<head[1], (head[2] + 1) % height>>
    [] d = "LEFT" -> <<(head[1] - 1) % width, head[2]>>
    [] d = "RIGHT" -> <<(head[1] + 1) % width, head[2]>>

\* The points a list of points holds.
Points(s) == {s[i] : i \in 1..Len(s)}

\* generate_random_apple: the points rng.choice picks from, given the snake.
possible_points(s) == Cells(width, height) \ Points(s)

SnakeObservation(s, d, a) == [snake |-> s, direction |-> d, apple |-> a]

InitSnake ==
  /\ \E g \in Grids : width = g[1] /\ height = g[2]
  /\ snake = <<>>
  /\ direction = "LEFT"
  /\ apple = None
  /\ outcome = NoOutcome
  /\ pc = "snake"
  /\ NoSolver
  /\ NoLot
  /\ NoAgent
  /\ NoCrypt
  /\ NoTree

\* reset, called before the first episode and when an episode is over: the
\* snake is one point at the centre, moving LEFT, and the apple is at one of
\* the other points.
Reset ==
  /\ pc = "snake"
  /\ snake = <<>> \/ outcome.done
  /\ snake' = << <<width \div 2, height \div 2>> >>
  /\ direction' = "LEFT"
  /\ \E p \in possible_points(snake') :
       /\ apple' = p
       /\ outcome' = [action |-> "", reward |-> 0, done |-> FALSE,
                      observation |-> SnakeObservation(snake', direction', p)]
  /\ UNCHANGED << width, height, pc, solver, lot, agent, crypt, tree >>

\* A step that lets the head enter the cell the tail is about to leave.
StepTailMovesFirst(action) ==
  /\ pc = "snake"
  /\ snake # <<>>
  /\ ~outcome.done
  /\ LET new_direction == IF action = "NONE" THEN direction ELSE action
         new_head == moves(snake[1], new_direction)
         grown == <<new_head>> \o snake
         moved == SubSeq(grown, 1, Len(grown) - 1)
         Returns(obs, reward, done) ==
           outcome' = [action |-> action, observation |-> obs,
                       reward |-> reward, done |-> done]
     IN  /\ direction' = new_direction
         /\ IF new_head \in Points(SubSeq(snake, 1, Len(snake) - 1))
            THEN /\ UNCHANGED << snake, apple >>
                 /\ Returns(SnakeObservation(snake, new_direction, apple),
                            -100, TRUE)
            ELSE IF apple # None /\ new_head = apple
            THEN /\ snake' = grown
                 /\ IF Len(grown) = width * height
                    THEN /\ apple' = apple
                         /\ Returns(SnakeObservation(grown, new_direction, None),
                                    101, TRUE)
                    ELSE \E p \in possible_points(grown) :
                           /\ apple' = p
                           /\ Returns(SnakeObservation(grown, new_direction, p),
                                      1, FALSE)
            ELSE /\ snake' = moved
                 /\ apple' = apple
                 /\ IF Len(moved) = width * height
                    THEN Returns(SnakeObservation(moved, new_direction, None),
                                 100, TRUE)
                    ELSE Returns(SnakeObservation(moved, new_direction, apple),
                                 0, FALSE)
  /\ UNCHANGED << width, height, pc, solver, lot, agent, crypt, tree >>

\* A step that places the new apple before the snake has grown.
StepAppleBeforeGrowth(action) ==
  /\ pc = "snake"
  /\ snake # <<>>
  /\ ~outcome.done
  /\ LET new_direction == IF action = "NONE" THEN direction ELSE action
         new_head == moves(snake[1], new_direction)
         grown == <<new_head>> \o snake
         moved == SubSeq(grown, 1, Len(grown) - 1)
         Returns(obs, reward, done) ==
           outcome' = [action |-> action, observation |-> obs,
                       reward |-> reward, done |-> done]
     IN  /\ direction' = new_direction
         /\ IF new_head \in Points(snake)
            THEN /\ UNCHANGED << snake, apple >>
                 /\ Returns(SnakeObservation(snake, new_direction, apple),
                            -100, TRUE)
            ELSE IF apple # None /\ new_head = apple
            THEN /\ snake' = grown
                 /\ IF Len(grown) = width * height
                    THEN /\ apple' = apple
                         /\ Returns(SnakeObservation(grown, new_direction, None),
                                    101, TRUE)
                    ELSE \E p \in possible_points(snake) :
                           /\ apple' = p
                           /\ Returns(SnakeObservation(grown, new_direction, p),
                                      1, FALSE)
            ELSE /\ snake' = moved
                 /\ apple' = apple
                 /\ IF Len(moved) = width * height
                    THEN Returns(SnakeObservation(moved, new_direction, None),
                                 100, TRUE)
                    ELSE Returns(SnakeObservation(moved, new_direction, apple),
                                 0, FALSE)
  /\ UNCHANGED << width, height, pc, solver, lot, agent, crypt, tree >>

\* step(action) while the episode is not over: NONE keeps the direction; a
\* new head inside the snake ends the episode with -100; otherwise the head
\* is inserted and either the apple is eaten (a win with 101 when the grid
\* is full, else reward 1 and a new apple) or the tail is popped.
Step(action) ==
  /\ pc = "snake"
  /\ snake # <<>>
  /\ ~outcome.done
  /\ LET new_direction == IF action = "NONE" THEN direction ELSE action
         new_head == moves(snake[1], new_direction)
         grown == <<new_head>> \o snake
         moved == SubSeq(grown, 1, Len(grown) - 1)
         Returns(obs, reward, done) ==
           outcome' = [action |-> action, observation |-> obs,
                       reward |-> reward, done |-> done]
     IN  /\ direction' = new_direction
         /\ IF new_head \in Points(snake)
            THEN /\ UNCHANGED << snake, apple >>
                 /\ Returns(SnakeObservation(snake, new_direction, apple),
                            -100, TRUE)
            ELSE IF apple # None /\ new_head = apple
            THEN /\ snake' = grown
                 /\ IF Len(grown) = width * height
                    THEN /\ apple' = apple
                         /\ Returns(SnakeObservation(grown, new_direction, None),
                                    101, TRUE)
                    ELSE \E p \in possible_points(grown) :
                           /\ apple' = p
                           /\ Returns(SnakeObservation(grown, new_direction, p),
                                      1, FALSE)
            ELSE /\ snake' = moved
                 /\ apple' = apple
                 /\ IF Len(moved) = width * height
                    THEN Returns(SnakeObservation(moved, new_direction, None),
                                 100, TRUE)
                    ELSE Returns(SnakeObservation(moved, new_direction, apple),
                                 0, FALSE)
  /\ UNCHANGED << width, height, pc, solver, lot, agent, crypt, tree >>

NextSnake ==
  \/ Reset
  \/ \E action \in Points(actions) : Step(action)

\* Episodes of the snake environment, the agent taking the offered actions.
SpecSnake == InitSnake /\ [][NextSnake]_vars

\* ======================================================= ValueIterationAgent
\* An MDP has NStates states, rewards 0..MaxReward; train is called with up
\* to MaxIter iterations.
NStates == 2
MaxReward == 1
MaxIter == 2

\* The discount factor the agent is constructed with; with it, integer
\* rewards and successors of probability 1, every utility is an integer.
discount_factor == 1

States == 1..NStates
Actions == {"a", "b"}
Tolerances == {0, 1}

\* The MDPs: any set of terminal states, any successor and any reward for
\* every state and action.
MDPs ==
  [terminal : SUBSET States,
   successor : [States \X Actions -> States],
   reward : [States \X Actions -> 0..MaxReward]]

\* The MarkovDecisionProcess interface, on agent.mdp.
MDP_get_states == States
MDP_is_terminal(s) == s \in mdp.terminal
MDP_get_actions(s) == Actions
MDP_get_successor(s, a) == [n \in {mdp.successor[<<s, a>>]} |-> 1]
MDP_get_reward(s, a, n) == mdp.reward[<<s, a>>]

RECURSIVE SumOver(_, _, _)
\* sum(f[x] for x in S).
SumOver(S, f, acc) ==
  IF S = {} THEN acc
  ELSE LET x == CHOOSE x \in S : TRUE IN SumOver(S \ {x}, f, acc + f[x])

\* max of a non-empty set of integers.
MaxOf(S) == CHOOSE m \in S : \A n \in S : n <= m

\* compute_bellman(state) on the utilities u.
compute_bellman(u, s) ==
  IF MDP_is_terminal(s) THEN 0
  ELSE MaxOf({ LET successors == MDP_get_successor(s, a) IN
                 SumOver(DOMAIN successors,
                         [n \in DOMAIN successors |->
                            successors[n]
                              * (MDP_get_reward(s, a, n)
                                   + discount_factor * u[n])],
                         0) :
               a \in MDP_get_actions(s) })

\* update(tolerance) on the utilities u: the new utilities, every state's
\* computed from u, and whether the largest change is within the tolerance.
update(u, tolerance) ==
  LET new_utilities == [s \in MDP_get_states |-> compute_bellman(u, s)]
      Abs(x) == IF x < 0 THEN -x ELSE x
      max_change ==
        MaxOf({0} \cup {Abs(new_utilities[s] - u[s]) : s \in MDP_get_states})
  IN  [utilities |-> new_utilities, converged |-> max_change <= tolerance]

RECURSIVE train_loop(_, _, _, _)
\* The loop of train: iters is incremented, update is applied, and the loop
\* ends when update reported convergence or iters has reached iterations.
train_loop(u, iters, iterations, tolerance) ==
  LET n == iters + 1
      updated == update(u, tolerance)
  IN  IF updated.converged \/ n >= iterations
      THEN [utilities |-> updated.utilities, iters |-> n]
      ELSE train_loop(updated.utilities, n, iterations, tolerance)

\* train(iterations, tolerance) with a number of iterations, from the
\* utilities u: the utilities it leaves and the count it returns, which is
\* the number of update applications.
train(u, iterations, tolerance) == train_loop(u, 0, iterations, tolerance)

\* Two agents constructed on the same MDP, all utilities 0.
InitTrain ==
  /\ mdp \in MDPs
  /\ plan \in [first : 0..MaxIter, second : 0..MaxIter, tolerance : Tolerances]
  /\ utilities = [s \in States |-> 0]
  /\ updates = 0
  /\ whole = [utilities |-> [s \in States |-> 0], updates |-> 0]
  /\ pc = "agent"
  /\ NoSolver
  /\ NoLot
  /\ NoEnv
  /\ NoCrypt
  /\ NoTree

\* The first agent's train(M).
TrainFirst ==
  /\ pc = "agent"
  /\ LET t == train(utilities, plan.first, plan.tolerance) IN
       /\ utilities' = t.utilities
       /\ updates' = updates + t.iters
  /\ pc' = "first"
  /\ UNCHANGED << mdp, plan, whole, solver, lot, env, crypt, tree >>

\* The first agent's train(N), after its train(M).
TrainSecond ==
  /\ pc = "first"
  /\ LET t == train(utilities, plan.second, plan.tolerance) IN
       /\ utilities' = t.utilities
       /\ updates' = updates + t.iters
  /\ pc' = "second"
  /\ UNCHANGED << mdp, plan, whole, solver, lot, env, crypt, tree >>

\* The second agent's train(M + N).
TrainWhole ==
  /\ pc = "second"
  /\ LET t == train(whole.utilities, plan.first + plan.second, plan.tolerance)
     IN  whole' = [utilities |-> t.utilities, updates |-> whole.updates + t.iters]
  /\ pc' = "both"
  /\ UNCHANGED << mdp, plan, utilities, updates, solver, lot, env, crypt, tree >>

NextTrain ==
  \/ TrainFirst
  \/ TrainSecond
  \/ TrainWhole

\* train(M) and train(N) on one agent, train(M + N) on another.
SpecTrain == InitTrain /\ [][NextTrain]_vars

\* ==================================================== CryptArithmeticProblem
\* The words of a puzzle have at most MaxWord letters.
MaxWord == 3

\* The letters of the puzzles, in the order in which a text first uses them.
Alphabet == << "X", "A", "B" >>

Letters == {Alphabet[i] : i \in 1..Len(Alphabet)}

Words == UNION {[1..n -> Letters] : n \in 1..MaxWord}

LettersOf(w) == {w[i] : i \in 1..Len(w)}

\* A text names its letters in the order of the alphabet: puzzles that differ
\* in the names of their letters only are taken once.
InAlphabetOrder(w) ==
  \A p \in 1..Len(w) : \A k \in 1..Len(Alphabet) :
    w[p] = Alphabet[k] =>
      \A j \in 1..(k - 1) : Alphabet[j] \in {w[q] : q \in 1..(p - 1)}

\* The digits a solver may give the letters: pairwise distinct ones.
DigitChoices ==
  {d \in [Letters -> 0..9] : \A l, m \in Letters : l # m => d[l] # d[m]}

RECURSIVE NumberOf(_, _)
\* The number a word stands for under the digits d.
NumberOf(w, d) ==
  IF w = <<>> THEN 0
  ELSE 10 * NumberOf(SubSeq(w, 1, Len(w) - 1), d) + d[w[Len(w)]]

RECURSIVE Spelled(_, _)
\* The word that stands for the number n under the digits d, when each of
\* its digits has a letter.
Spelled(n, d) ==
  LET last == CHOOSE l \in DOMAIN d : d[l] = n % 10
  IN  IF n < 10 THEN << last >> ELSE Append(Spelled(n \div 10, d), last)

RECURSIVE Spellable(_, _)
Spellable(n, d) ==
  /\ n % 10 \in {d[l] : l \in DOMAIN d}
  /\ n >= 10 => Spellable(n \div 10, d)

\* The orders list(set(...)) can put the letters in.
Orders(S) ==
  {s \in [1..Cardinality(S) -> S] :
     \A i, j \in 1..Cardinality(S) : i # j => s[i] # s[j]}

\* s[::-1]
Reversed(w) == [i \in 1..Len(w) |-> w[Len(w) + 1 - i]]

two_digit_repeats == {i * 11 : i \in 0..9}
three_digit_repeats == {111 + 11 * k : k \in 0..8}
digit_domain == 0..9
non_zero_digit_domain == 1..9
carry_domain == 0..1
carry_digit_domain == 0..19
carry_two_digit_domain == (0..99) \ two_digit_repeats
carry_three_digit_domain ==
  ((0..199) \ two_digit_repeats) \ three_digit_repeats

\* f"C{i}"
carry_var(i) == "C" \o ToString(i)

\* f"{RHS[i]}C{i}" and f"{max_LHS[i+1]}C{i}": a letter and a carry.
sum_var(letter, i) == letter \o carry_var(i)

\* f"{LHS1[i+1]}{LHS0[i+1]}C{i}"
combined_var(l1, l0, i) == l1 \o l0 \o carry_var(i)

RECURSIVE combinations(_)
\* itertools.combinations(variables, 2), in its order.
combinations(vs) ==
  IF Len(vs) < 2 THEN <<>>
  ELSE [j \in 1..(Len(vs) - 1) |-> << vs[1], vs[j + 1] >>]
         \o combinations(Tail(vs))

\* The lambdas of the constraints from_text generates, on the values of the
\* constraint's first and second variable.
CryptCondition(c, x, y) ==
  CASE c.cond = "neq" -> x # y
    [] c.cond = "tens" -> x \div 10 = y
    [] c.cond = "units" -> x % 10 = y
    [] c.cond = "digit_sum" ->
         (x % 10) + (x \div 10) = (y % 10) + 10 * (y \div 10)
    [] c.cond = "hundreds" -> x \div 100 = y
    [] c.cond = "carry_digit_sum" ->
         (x \div 100) + ((x % 100) \div 10) + ((x % 100) % 10)
           = (y % 10) + 10 * (y \div 10)
    [] c.cond = "units_below_carry" -> (x % 100) % 10 = y
    [] c.cond = "tens_below_carry" -> (x % 100) \div 10 = y
    [] OTHER -> FALSE

\* from_text, after the text was parsed into its three words; letters is the
\* list list(set(LHS0 + LHS1 + RHS)) came out as.
from_text(t, letters) ==
  LET LHS0 == Reversed(t.LHS0)
      LHS1 == Reversed(t.LHS1)
      rhs == Reversed(t.RHS)
      max_length == IF Len(LHS0) >= Len(LHS1) THEN Len(LHS0) ELSE Len(LHS1)
      min_length == IF Len(LHS0) <= Len(LHS1) THEN Len(LHS0) ELSE Len(LHS1)
      max_LHS == IF Len(LHS0) >= Len(LHS1) THEN LHS0 ELSE LHS1
      first_var == LHS1[1] \o LHS0[1]
      leading == {LHS0[Len(LHS0)], LHS1[Len(LHS1)], rhs[Len(rhs)]}
      both == 0..(min_length - 2)
      longer == (min_length - 1)..(Len(max_LHS) - 2)
      all_variables ==
        letters
          \o [k \in 1..max_length |-> carry_var(k - 1)]
          \o [k \in 1..max_length |-> sum_var(rhs[k], k - 1)]
          \o << first_var >>
          \o [k \in 1..(min_length - 1) |->
                combined_var(LHS1[k + 1], LHS0[k + 1], k - 1)]
          \o [k \in 1..(Len(max_LHS) - min_length) |->
                sum_var(max_LHS[min_length + k], min_length + k - 2)]
      letter_domains ==
        [v \in LettersOf(letters) |->
           IF v \in leading THEN non_zero_digit_domain ELSE digit_domain]
      carry_domains ==
        [v \in {carry_var(i) : i \in 0..(max_length - 1)} |-> carry_domain]
      sum_domains ==
        [v \in {sum_var(rhs[i + 1], i) : i \in 0..(max_length - 1)} |->
           carry_digit_domain]
      first_domain ==
        first_var :> (IF LHS0[1] # LHS1[1] THEN carry_two_digit_domain
                      ELSE two_digit_repeats)
      combined_domains ==
        [v \in {combined_var(LHS1[i + 2], LHS0[i + 2], i) : i \in both} |->
           LET i == CHOOSE i \in both :
                      v = combined_var(LHS1[i + 2], LHS0[i + 2], i)
           IN  IF LHS0[i + 2] # LHS1[i + 2] THEN carry_three_digit_domain
               ELSE two_digit_repeats \cup three_digit_repeats]
      longer_domains ==
        [v \in {sum_var(max_LHS[i + 2], i) : i \in longer} |->
           carry_digit_domain]
      declared ==
        longer_domains @@ combined_domains @@ first_domain @@ sum_domains
          @@ carry_domains @@ letter_domains
      last_carry == carry_var(max_length - 1)
      all_domains ==
        IF Len(rhs) > max_length
        THEN (last_carry :> {1}) @@ (rhs[Len(rhs)] :> {1}) @@ declared
        ELSE (last_carry :> {0}) @@ declared
      different ==
        [k \in 1..Len(combinations(letters)) |->
           Binary(combinations(letters)[k][1], combinations(letters)[k][2],
                  "neq")]
      first_column ==
        << Binary(first_var, LHS1[1], "tens"),
           Binary(first_var, LHS0[1], "units"),
           Binary(first_var, sum_var(rhs[1], 0), "digit_sum") >>
      column(i) ==
        << Binary(sum_var(rhs[i + 1], i), carry_var(i), "tens"),
           Binary(sum_var(rhs[i + 1], i), rhs[i + 1], "units") >>
          \o (IF i < min_length - 1
              THEN LET combined ==
                         combined_var(LHS1[i + 2], LHS0[i + 2], i)
                   IN  << Binary(combined, carry_var(i), "hundreds"),
                          Binary(combined, sum_var(rhs[i + 2], i + 1),
                                 "carry_digit_sum"),
                          Binary(combined, LHS1[i + 2], "units_below_carry"),
                          Binary(combined, LHS0[i + 2], "tens_below_carry") >>
              ELSE IF i < Len(max_LHS) - 1
              THEN LET combined == sum_var(max_LHS[i + 2], i)
                   IN  << Binary(combined, max_LHS[i + 2], "units"),
                          Binary(combined, carry_var(i), "tens"),
                          Binary(combined, sum_var(rhs[i + 2], i + 1),
                                 "digit_sum") >>
              ELSE <<>>)
      RECURSIVE columns(_)
      columns(i) == IF i >= max_length THEN <<>> ELSE column(i) \o columns(i + 1)
  IN  [variables |-> all_variables,
       domains |-> all_domains,
       constraints |-> different \o first_column \o columns(0),
       LHS |-> << t.LHS0, t.LHS1 >>,
       RHS |-> t.RHS]

\* A puzzle over the alphabet with a digit for each of its letters that
\* makes the addition true, leading letters not zero: two words and digits
\* whose sum can be spelled with the letters.
InitCrypt ==
  /\ \E w0 \in {w \in Words : InAlphabetOrder(w)} :
     \E w1 \in {w \in Words : InAlphabetOrder(w0 \o w)} :
     \E d \in DigitChoices :
       /\ d[w0[1]] # 0
       /\ d[w1[1]] # 0
       /\ Spellable(NumberOf(w0, d) + NumberOf(w1, d), d)
       /\ LET r == Spelled(NumberOf(w0, d) + NumberOf(w1, d), d) IN
            /\ InAlphabetOrder(w0 \o w1 \o r)
            /\ text = [LHS0 |-> w0, LHS1 |-> w1, RHS |-> r]
            /\ digits = [l \in LettersOf(w0 \o w1 \o r) |-> d[l]]
  /\ LHS = <<>>
  /\ RHS = <<>>
  /\ pc = "text"
  /\ NoSolver
  /\ NoLot
  /\ NoEnv
  /\ NoAgent
  /\ NoTree

\* CryptArithmeticProblem.from_text(text)
FromText ==
  /\ pc = "text"
  /\ \E letters \in Orders(LettersOf(text.LHS0 \o text.LHS1 \o text.RHS)) :
       LET p == from_text(text, letters) IN
         /\ variables' = p.variables
         /\ domains' = p.domains
         /\ constraints' = p.constraints
         /\ LHS' = p.LHS
         /\ RHS' = p.RHS
  /\ pc' = "problem"
  /\ UNCHANGED << text, digits, given, stack, ret, result, counters, first,
                  call, lot, env, agent, tree >>

\* from_text on every puzzle of the family that has a solution.
SpecCrypt == InitCrypt /\ [][FromText]_vars

\* ====================================================== minimax and alphabeta
\* The values of the game's terminal states and of the heuristic are
\* 0..MaxScore.
MaxScore == 1

\* The states of the game tree: the root and the states the actions 1 and 2
\* lead to, three actions deep on one side.
GameStates ==
  { <<>>, <<1>>, <<2>>, <<1, 1>>, <<1, 2>>, <<2, 1>>, <<2, 2>>,
    <<2, 2, 1>>, <<2, 2, 2>> }

\* The states without a successor: the game is over in them.
Final == {s \in GameStates : Append(s, 1) \notin GameStates}

\* The states that cannot be reached because the game ends above them.
Beyond(g) ==
  {s \in GameStates :
     \E n \in 0..(Len(s) - 1) : g.kind[SubSeq(s, 1, n)] = "terminal"}

\* A game: every state that has successors is terminal, the player's (a max
\* node) or an enemy's (a min node); every state has a score, the value of
\* player 0 when it is terminal and the heuristic's value for player 0 when
\* it is not. States beyond a terminal one are of no account.
Games ==
  {g \in [kind : [GameStates \ Final -> {"terminal", "max", "min"}],
          score : [GameStates -> 0..MaxScore]] :
     \A s \in Beyond(g) :
       /\ g.score[s] = 0
       /\ s \notin Final => g.kind[s] = "terminal"}

\* max_depth: -1 for no cutoff, or a depth up to that of the tree.
MaxDepths == {-1} \cup {Len(s) : s \in GameStates}

\* float("inf"): greater than every value of the game.
Infinity == MaxScore + 1

\* The action returned when there is none.
NoAction == 0

\* game.is_terminal(state)[0]
Game_is_terminal(g, s) == s \in Final \/ g.kind[s] = "terminal"

\* game.is_terminal(state)[1][0]
Game_values(g, s) == g.score[s]

\* heuristic(game, state, 0)
heuristic(g, s) == g.score[s]

\* game.get_turn(state): 0 for the player, 1 for an enemy.
Game_get_turn(g, s) == IF g.kind[s] = "max" THEN 0 ELSE 1

\* list(game.get_actions(state))
Game_get_actions(g, s) == << 1, 2 >>

\* game.get_successor(state, action)
Game_get_successor(g, s, action) == Append(s, action)

\* What a search returns, with the number of states it was called on.
Found(value, action, calls) ==
  [value |-> value, action |-> action, calls |-> calls]

RECURSIVE minimax(_, _, _)
RECURSIVE minimax_loop(_, _, _, _, _, _, _)
\* The loop of minimax over the actions from the i-th on: at a max node a
\* greater value replaces the best one, at a min node a smaller one.
minimax_loop(g, s, max_depth, i, best_val, best_action, calls) ==
  LET choices == Game_get_actions(g, s) IN
    IF i > Len(choices) THEN Found(best_val, best_action, calls)
    ELSE LET action == choices[i]
             succ == Game_get_successor(g, s, action)
             below == minimax(g, succ,
                              IF max_depth # -1 THEN max_depth - 1 ELSE -1)
             better == IF Game_get_turn(g, s) = 0
                       THEN below.value > best_val
                       ELSE below.value < best_val
         IN  minimax_loop(g, s, max_depth, i + 1,
                          IF better THEN below.value ELSE best_val,
                          IF better THEN action ELSE best_action,
                          calls + below.calls)

\* minimax(game, state, heuristic, max_depth)
minimax(g, s, max_depth) ==
  IF Game_is_terminal(g, s) THEN Found(Game_values(g, s), NoAction, 1)
  ELSE IF max_depth # -1 /\ max_depth = 0
  THEN Found(heuristic(g, s), NoAction, 1)
  ELSE minimax_loop(g, s, max_depth, 1,
                    IF Game_get_turn(g, s) = 0 THEN -Infinity ELSE Infinity,
                    NoAction, 1)

\* A test that cuts a loop off while a better value may still come.
cut_off_within_one(alpha, beta) == beta <= alpha + 1

\* alphabeta, lines 125 and 140: the test that ends a loop.
cut_off(alpha, beta) == beta <= alpha

RECURSIVE helper(_, _, _, _, _, _)
RECURSIVE helper_loop(_, _, _, _, _, _, _, _, _, _)
\* The loop of helper over the actions from the i-th on, with the window
\* (alpha, beta) as the loop has it by then.
helper_loop(g, max_depth, s, depth, alpha, beta, i, best_val, best_action, calls) ==
  LET choices == Game_get_actions(g, s) IN
    IF i > Len(choices) THEN Found(best_val, best_action, calls)
    ELSE LET action == choices[i]
             succ == Game_get_successor(g, s, action)
             below == helper(g, max_depth, succ, depth + 1, alpha, beta)
             turn == Game_get_turn(g, s)
             better == IF turn = 0 THEN below.value > best_val
                       ELSE below.value < best_val
             new_val == IF better THEN below.value ELSE best_val
             new_action == IF better THEN action ELSE best_action
             new_alpha == IF turn = 0 /\ new_val > alpha THEN new_val
                          ELSE alpha
             new_beta == IF turn # 0 /\ new_val < beta THEN new_val ELSE beta
         IN  IF cut_off(new_alpha, new_beta)
             THEN Found(new_val, new_action, calls + below.calls)
             ELSE helper_loop(g, max_depth, s, depth, new_alpha,
                              new_beta, i + 1, new_val, new_action,
                              calls + below.calls)

\* alphabeta's helper(s, depth, alpha, beta)
helper(g, max_depth, s, depth, alpha, beta) ==
  IF Game_is_terminal(g, s) THEN Found(Game_values(g, s), NoAction, 1)
  ELSE IF max_depth # -1 /\ depth >= max_depth
  THEN Found(heuristic(g, s), NoAction, 1)
  ELSE helper_loop(g, max_depth, s, depth, alpha, beta, 1,
                   IF Game_get_turn(g, s) = 0 THEN -Infinity ELSE Infinity,
                   NoAction, 1)

\* alphabeta(game, state, heuristic, max_depth)
alphabeta(g, s, max_depth) == helper(g, max_depth, s, 0, -Infinity, Infinity)

InitGame ==
  /\ game \in Games
  /\ searched = <<>>
  /\ pc = "game"
  /\ NoSolver
  /\ NoLot
  /\ NoEnv
  /\ NoAgent
  /\ NoCrypt

\* minimax(game, state, heuristic, max_depth) on the root of the game.
CallMinimax ==
  /\ pc = "game"
  /\ \E max_depth \in MaxDepths :
       searched' = [max_depth |-> max_depth,
                    minimax |-> minimax(game, <<>>, max_depth)]
  /\ pc' = "minimax"
  /\ UNCHANGED << game, solver, lot, env, agent, crypt >>

\* alphabeta(game, state, heuristic, max_depth) with the same arguments.
CallAlphabeta ==
  /\ pc = "minimax"
  /\ searched' = [max_depth |-> searched.max_depth,
                  minimax |-> searched.minimax,
                  alphabeta |-> alphabeta(game, <<>>, searched.max_depth)]
  /\ pc' = "alphabeta"
  /\ UNCHANGED << game, solver, lot, env, agent, crypt >>

NextGame ==
  \/ CallMinimax
  \/ CallAlphabeta

\* Both searches on every game of the family, for every max_depth.
SpecGame == InitGame /\ [][NextGame]_vars

\* ================================================================== claims
\* Position of a variable in problem.variables.
IndexOf(v) == CHOOSE i \in 1..Len(variables) : variables[i] = v

\* A constraint of the problem as given holds under the total assignment a.
Holds(c, a) ==
  IF c.kind = "unary" THEN UnaryCondition(c, a[c.vars[1]])
  ELSE BinaryCondition(c, a[c.vars[1]], a[c.vars[2]])

SatisfiesAll(a) ==
  \A i \in 1..Len(origConstraints) : Holds(origConstraints[i], a)

\* The total assignments over the given domains that satisfy every
\* constraint of the problem as given.
Solutions ==
  {a \in [Declared -> Values] :
     (\A v \in Declared : a[v] \in origDomains[v]) /\ SatisfiesAll(a)}

\* Some unary constraint is satisfied by no value of its variable's domain.
UnaryUnsatisfiable ==
  \E i \in 1..Len(origConstraints) :
    /\ origConstraints[i].kind = "unary"
    /\ \A x \in origDomains[origConstraints[i].vars[1]] :
         ~UnaryCondition(origConstraints[i], x)

\* The unary constraints on some variable leave none of its values.
PreprocessingFails ==
  \E v \in Vars :
    /\ \E i \in 1..Len(origConstraints) :
         origConstraints[i].kind = "unary" /\ origConstraints[i].vars[1] = v
    /\ {x \in origDomains[v] :
          \A i \in 1..Len(origConstraints) :
            (origConstraints[i].kind = "unary"
               /\ origConstraints[i].vars[1] = v)
              => UnaryCondition(origConstraints[i], x)} = {}

\* C1: soundness of solve: a returned assignment maps exactly the declared
\* variables, each to one value of its given domain, and every unary and
\* binary constraint of the problem as given holds under it.
C1_Soundness ==
  (pc = "done" /\ result # None) =>
    LET a == result[1] IN
      /\ DOMAIN a = Declared
      /\ \A v \in Declared : a[v] \in origDomains[v]
      /\ SatisfiesAll(a)

\* C1 witness: solve returned an assignment for a problem with a unary and a
\* binary constraint, after the unary constraint had narrowed a domain, and
\* some assignment over the narrowed domains violates a binary constraint.
C1_Witness ==
  /\ pc = "done"
  /\ result # None
  /\ domains # origDomains
  /\ \E a \in [Declared -> Values] :
       (\A v \in Declared : a[v] \in domains[v]) /\ ~SatisfiesAll(a)
  /\ \E i, j \in 1..Len(origConstraints) :
       origConstraints[i].kind = "unary" /\ origConstraints[j].kind = "binary"

\* C2: completeness of solve: None is returned only if no total assignment
\* satisfies all unary and binary constraints.
C2_Completeness ==
  (pc = "done" /\ result = None) => Solutions = {}

\* C2 witness: the triangle A, B, C with two colours and the three
\* inequalities is searched and reported as having no solution.
C2_Witness ==
  /\ pc = "done"
  /\ result = None
  /\ origDomains = [v \in Vars |-> {0, 1}]
  /\ origConstraints = << Binary("A", "B", "neq"), Binary("B", "C", "neq"),
                          Binary("C", "A", "neq") >>
  /\ Len(checked) > 1

\* The backtrack call that was entered and has not evaluated is_complete yet.
PendingChecks ==
  IF stack # <<>> /\ Top.phase = "check" THEN 1 ELSE 0

\* C3: when preprocessing succeeds, is_complete is evaluated once per
\* backtrack call, first on the empty assignment, never twice on one
\* assignment and never on an assignment forward checking rejected; the
\* number of evaluations is 1 plus the number of values forward checking
\* accepted (less the call that has just been entered).
C3_ExactlyOnce ==
  (~PreprocessingFails /\ pc \in {"search", "done"}) =>
    /\ Len(checked) + PendingChecks = 1 + fcPassed
    /\ (checked # <<>> => checked[1] = <<>>)
    /\ \A i, j \in 1..Len(checked) : i # j => checked[i] # checked[j]
    /\ \A i \in 1..Len(checked) : checked[i] \notin rejected
    /\ \A k \in 1..Len(stack) :
         (\E i \in 1..Len(checked) : checked[i] = stack[k].assignment)
           <=> stack[k].phase # "check"

\* C3 witness: a finished search in which forward checking accepted some
\* values and rejected others.
C3_Witness ==
  /\ pc = "done"
  /\ fcPassed >= 2
  /\ rejected # {}
  /\ Len(checked) = 1 + fcPassed

\* C4: if some unary constraint is satisfied by no value of its variable's
\* domain, no backtrack call is made, is_complete is never evaluated and
\* solve returns None.
C4_NoCheckWhenPreprocessingFails ==
  UnaryUnsatisfiable =>
    /\ stack = <<>>
    /\ checked = <<>>
    /\ pc \in {"start", "done"}
    /\ (pc = "done" => result = None)

\* C4 witness: solve has returned for a problem in which a unary constraint
\* rules out every value of a non-empty domain.
C4_Witness ==
  /\ pc = "done"
  /\ \E i \in 1..Len(origConstraints) :
       /\ origConstraints[i].kind = "unary"
       /\ origDomains[origConstraints[i].vars[1]] # {}
       /\ \A x \in origDomains[origConstraints[i].vars[1]] :
            ~UnaryCondition(origConstraints[i], x)

\* C5: determinism of solve: the second of two successive solve calls on the
\* same problem returns what the first returned and evaluates is_complete
\* as often as the first.
C5_Determinism ==
  (pc = "done" /\ run = 2) =>
    (result = firstResult /\ Len(checked) = Len(firstChecked))

\* C6: first-solution semantics: once a backtrack call has returned an
\* assignment, every step is the return of the enclosing call with the same
\* assignment, up to solve's own return of it; no value is tried, no forward
\* checking is done and is_complete is not evaluated again.
C6_FirstSolution ==
  [][(pc = "search" /\ ret.pending /\ ret.value # None) =>
       /\ checked' = checked
       /\ fcCalls' = fcCalls
       /\ checked[Len(checked)] = ret.value[1]
       /\ \/ pc' = "search" /\ ret' = ret /\ stack' = Pop
          \/ pc' = "done" /\ stack = <<>> /\ result' = ret.value]_vars

\* C6 witness: an assignment is on its way up through a caller whose loop
\* has values left to try.
C6_Witness ==
  /\ pc = "search"
  /\ ret.pending
  /\ ret.value # None
  /\ Len(stack) >= 2
  /\ \E k \in 1..Len(stack) : stack[k].idx < Len(stack[k].ordered)

\* C7: minimum_remaining_values returns a key of the snapshot whose domain
\* has the fewest values, and among those keys the one declared first.
C7_MinimumRemainingValues ==
  call.fn = "mrv" =>
    LET d == call.domains
        x == call.x
    IN  /\ x \in DOMAIN d
        /\ \A n \in DOMAIN d : Cardinality(d[x]) <= Cardinality(d[n])
        /\ \A n \in DOMAIN d :
             Cardinality(d[n]) = Cardinality(d[x]) => IndexOf(x) <= IndexOf(n)

\* C7 witness: a call chose between two keys with equally small domains of
\* different content and took the one declared first, which is not the
\* first by name, a third key having a larger domain.
C7_Witness ==
  /\ call.fn = "mrv"
  /\ call.x = "C"
  /\ variables[1] = "C"
  /\ \E n \in DOMAIN call.domains \ {"C"} :
       /\ Cardinality(call.domains[n]) = Cardinality(call.domains["C"])
       /\ call.domains[n] # call.domains["C"]
  /\ \E n \in DOMAIN call.domains :
       Cardinality(call.domains[n]) > Cardinality(call.domains["C"])

\* The binary constraint c, which joins x and another variable, is violated
\* when x has value v and the other variable has value w.
Violates(c, x, v, w) ==
  IF c.vars[1] = x THEN ~BinaryCondition(c, v, w)
  ELSE ~BinaryCondition(c, w, v)

\* The binary constraints of the problem that join x and n, by position.
Joining(x, n) ==
  {i \in 1..Len(constraints) :
     /\ constraints[i].kind = "binary"
     /\ {constraints[i].vars[1], constraints[i].vars[2]} = {x, n}}

\* The restraint score of value v for variable x on snapshot d: the
\* (constraint, neighbour value) pairs that violate a binary constraint
\* joining x and a key of the snapshot.
Score(x, v, d) ==
  Cardinality({p \in (1..Len(constraints)) \X Values :
                 \E n \in DOMAIN d \ {x} :
                   /\ p[1] \in Joining(x, n)
                   /\ p[2] \in d[n]
                   /\ Violates(constraints[p[1]], x, v, p[2])})

\* C8: least_restraining_values returns every value of the variable's
\* current domain once, in ascending order of restraint score, values of
\* equal score in ascending order.
C8_LeastRestrainingValues ==
  call.fn = "lrv" =>
    LET d == call.domains
        x == call.x
        o == call.ordered
    IN  /\ Len(o) = Cardinality(d[x])
        /\ {o[i] : i \in 1..Len(o)} = d[x]
        /\ \A i, j \in 1..Len(o) :
             i < j => \/ Score(x, o[i], d) < Score(x, o[j], d)
                      \/ /\ Score(x, o[i], d) = Score(x, o[j], d)
                         /\ o[i] < o[j]

\* C8 witness: a call returned two values by their scores, against their
\* natural order, while a constraint joins the variable and a variable that
\* is no key of the snapshot.
C8_Witness ==
  /\ call.fn = "lrv"
  /\ Len(call.ordered) = 2
  /\ call.ordered[1] > call.ordered[2]
  /\ Score(call.x, call.ordered[1], call.domains)
       < Score(call.x, call.ordered[2], call.domains)
  /\ \E n \in Vars \ DOMAIN call.domains : Joining(call.x, n) # {}

\* The values of n in snapshot d that satisfy, with x = a, every constraint
\* joining x and n at a position up to last.
Filtered(d, x, a, n, last) ==
  {v \in d[n] :
     \A i \in Joining(x, n) : i <= last => ~Violates(constraints[i], x, a, v)}

\* C9: when forward_checking returns true the snapshot has the keys it had,
\* the assigned variable not among them, and every key's domain is its old
\* domain restricted to the values that satisfy every binary constraint
\* joining it and the assigned variable (unchanged when there is none).
C9_ForwardCheckingPrunes ==
  (lastFC.called /\ lastFC.ok) =>
    /\ DOMAIN lastFC.after = DOMAIN lastFC.before
    /\ lastFC.x \notin DOMAIN lastFC.after
    /\ \A n \in DOMAIN lastFC.before :
         lastFC.after[n] =
           Filtered(lastFC.before, lastFC.x, lastFC.a, n, Len(constraints))

\* C9 witness: a forward checking call returned true, pruned one key, left
\* another unchanged and skipped a constraint to an assigned variable.
C9_Witness ==
  /\ lastFC.called
  /\ lastFC.ok
  /\ \E n \in DOMAIN lastFC.before : lastFC.after[n] # lastFC.before[n]
  /\ \E n \in Declared \ (DOMAIN lastFC.before \cup {lastFC.x}) :
       Joining(lastFC.x, n) # {}

\* The positions at which forward checking on lastFC's arguments leaves the
\* domain of a key of the snapshot empty.
Emptying ==
  {i \in 1..Len(constraints) :
     \E n \in DOMAIN lastFC.before :
       /\ i \in Joining(lastFC.x, n)
       /\ Filtered(lastFC.before, lastFC.x, lastFC.a, n, i) = {}}

\* C10: forward_checking returns false exactly when filtering by some
\* constraint leaves a key's domain empty, and it returns at the first such
\* constraint: no later constraint has pruned anything.
C10_ForwardCheckingFails ==
  lastFC.called =>
    /\ ~lastFC.ok <=> Emptying # {}
    /\ ~lastFC.ok =>
         LET first_empty == CHOOSE i \in Emptying : \A j \in Emptying : i <= j
         IN  /\ DOMAIN lastFC.after = DOMAIN lastFC.before
             /\ \A n \in DOMAIN lastFC.before :
                  lastFC.after[n] =
                    Filtered(lastFC.before, lastFC.x, lastFC.a, n, first_empty)

\* C10 witness: a forward checking call returned false at a constraint that
\* is followed by one which would have pruned another key.
C10_Witness ==
  /\ lastFC.called
  /\ ~lastFC.ok
  /\ \E n \in DOMAIN lastFC.before :
       /\ lastFC.after[n] # {}
       /\ Filtered(lastFC.before, lastFC.x, lastFC.a, n, Len(constraints))
            # lastFC.after[n]

\* The unary constraints on v in the constraint list cs, by position.
UnaryOn(cs, v) ==
  {i \in 1..Len(cs) : cs[i].kind = "unary" /\ cs[i].vars[1] = v}

\* The values of domain d that satisfy the unary constraints of cs on v at
\* the positions up to last.
Restricted(cs, d, v, last) ==
  {x \in d : \A i \in UnaryOn(cs, v) : i <= last => UnaryCondition(cs[i], x)}

\* C11: after one_consistency returned true, every variable's domain is its
\* domain before the call restricted to the values that satisfy all unary
\* constraints on the variable (unchanged without one), and
\* problem.constraints holds no unary constraint and the binary constraints
\* it held, in their order.
C11_OneConsistencyNarrows ==
  (call.fn = "one_consistency" /\ call.solvable) =>
    /\ DOMAIN domains = DOMAIN call.domains
    /\ \A v \in DOMAIN domains :
         /\ domains[v] = Restricted(call.constraints, call.domains[v], v,
                                    Len(call.constraints))
         /\ UnaryOn(call.constraints, v) = {} => domains[v] = call.domains[v]
    /\ \A i \in 1..Len(constraints) : constraints[i].kind = "binary"
    /\ constraints = SelectSeq(call.constraints, LAMBDA c : c.kind = "binary")

\* C11 witness: the first call returned true after narrowing one domain and
\* leaving another, and dropped a unary constraint that stood between two
\* binary ones.
C11_Witness ==
  /\ pc = "once"
  /\ call.fn = "one_consistency"
  /\ call.solvable
  /\ \E v \in DOMAIN domains : domains[v] # origDomains[v]
  /\ \E v \in DOMAIN domains :
       UnaryOn(origConstraints, v) = {} /\ domains[v] # {}
  /\ \E i, j, k \in 1..Len(origConstraints) :
       /\ i < j /\ j < k
       /\ origConstraints[i].kind = "binary"
       /\ origConstraints[j].kind = "unary"
       /\ origConstraints[k].kind = "binary"

\* The positions of the unary constraints of cs whose application leaves the
\* domain of their variable empty.
EmptiedAt(cs, doms) ==
  {i \in 1..Len(cs) :
     /\ cs[i].kind = "unary"
     /\ Restricted(cs, doms[cs[i].vars[1]], cs[i].vars[1], i) = {}}

\* C12: one_consistency returns false exactly when applying some unary
\* constraint leaves its variable's domain empty; it returns true for a
\* problem without unary constraints, whatever its domains.
C12_OneConsistencyVerdict ==
  call.fn = "one_consistency" =>
    /\ ~call.solvable <=> EmptiedAt(call.constraints, call.domains) # {}
    /\ (\A i \in 1..Len(call.constraints) :
          call.constraints[i].kind # "unary") => call.solvable

\* C12 witness: the first call returned false for a problem in which one
\* unary constraint empties a domain that was not empty and another one
\* leaves values in its variable's domain.
C12_Witness ==
  /\ pc = "once"
  /\ call.fn = "one_consistency"
  /\ ~call.solvable
  /\ \E i \in EmptiedAt(origConstraints, origDomains) :
       origDomains[origConstraints[i].vars[1]] # {}
  /\ \E i \in 1..Len(origConstraints) :
       /\ origConstraints[i].kind = "unary"
       /\ i \notin EmptiedAt(origConstraints, origDomains)

\* C13: solve tells failure from success by the None sentinel alone: what it
\* returns is None or a complete assignment, a problem without solution
\* gets None, and the problem without variables gets the empty assignment,
\* which is not None; an assignment on its way up, the empty one included,
\* has been found complete and is not None.
C13_NoneSentinel ==
  /\ pc = "done" =>
       /\ \/ result = None
          \/ Len(result) = 1 /\ IsComplete(variables, result[1])
       /\ Solutions = {} => result = None
       /\ variables = <<>> => (result = Some(<<>>) /\ result # None)
  /\ (pc = "search" /\ ret.pending /\ IsComplete(variables, <<>>)) =>
       (ret.value = Some(<<>>) /\ ret.value # None)

\* C13 witness: solve has returned the empty assignment for the problem
\* without variables, after one is_complete evaluation.
C13_Witness ==
  /\ pc = "done"
  /\ variables = <<>>
  /\ checked = << <<>> >>
  /\ result = Some(<<>>)

\* C14: once one_consistency has returned, no step of the search changes
\* problem.variables, problem.domains or problem.constraints: they are, when
\* solve returns, what preprocessing left.
C14_SearchKeepsProblem ==
  [][pc = "search" => problem' = problem]_vars

\* C14 witness: forward checking has pruned the snapshot of a search that is
\* under way, and the pruned variable has its values in problem.domains.
C14_Witness ==
  /\ pc = "search"
  /\ lastFC.called
  /\ \E n \in DOMAIN lastFC.after :
       lastFC.after[n] # lastFC.before[n] /\ lastFC.before[n] = domains[n]

\* C15: minimum_remaining_values and least_restraining_values are pure: the
\* step of a backtrack call that calls them leaves the snapshot they are
\* handed as it was, keys and domains, and with it the call's assignment,
\* the enclosing calls, and the problem's variables, domains and
\* constraints.
C15_HeuristicsArePure ==
  [][(pc = "search" /\ stack # <<>> /\ Top.phase = "select") =>
       /\ problem' = problem
       /\ Len(stack') = Len(stack)
       /\ DOMAIN stack'[Len(stack)].domains = DOMAIN Top.domains
       /\ stack'[Len(stack)].domains = Top.domains
       /\ stack'[Len(stack)].assignment = Top.assignment
       /\ \A k \in 1..(Len(stack) - 1) : stack'[k] = stack[k]]_vars

\* C15 witness: both heuristics have just been called on a snapshot with
\* two keys, inside a nested backtrack call, and the values have been
\* ordered against their natural order.
C15_Witness ==
  /\ pc = "search"
  /\ Len(stack) >= 2
  /\ Top.phase = "loop"
  /\ Top.idx = 1
  /\ Cardinality(DOMAIN Top.domains) = 2
  /\ Len(Top.ordered) = 2
  /\ Top.ordered[1] > Top.ordered[2]

\* The keys of assignment a and of snapshot d are disjoint and together the
\* declared variables.
Partition(a, d) ==
  /\ DOMAIN a \cap DOMAIN d = {}
  /\ DOMAIN a \cup DOMAIN d = Declared

\* C20: partition invariant: in every backtrack call, from its entry on,
\* and for every new_assignment and new_domains built in the value loop,
\* before and after forward checking, the keys of the assignment and the
\* keys of the snapshot are disjoint and their union is the set of the
\* declared variables.
C20_Partition ==
  /\ \A k \in 1..Len(stack) : Partition(stack[k].assignment, stack[k].domains)
  /\ lastFC.called =>
       /\ Partition(lastFC.assignment, lastFC.before)
       /\ Partition(lastFC.assignment, lastFC.after)

\* C20 witness: three nested backtrack calls, the innermost just entered
\* with one variable left in its snapshot, after forward checking had
\* rejected another pair.
C20_Witness ==
  /\ pc = "search"
  /\ Len(stack) = 3
  /\ Top.phase = "check"
  /\ Cardinality(DOMAIN Top.domains) = 1
  /\ Cardinality(DOMAIN Top.assignment) = 2
  /\ rejected # {}

\* C16: get_successor returns a state in which the acted car has moved one
\* cell in the action's direction and every other car is where it was, and
\* the state passed in is after the call what it was before.
C16_SuccessorIsNewState ==
  lastMove.called =>
    LET car == lastMove.action[1]
        v == to_vector(lastMove.action[2])
    IN  /\ DOMAIN lastMove.returned = DOMAIN lastMove.before
        /\ \A c \in DOMAIN lastMove.before \ {car} :
             lastMove.returned[c] = lastMove.before[c]
        /\ lastMove.returned[car][1] = lastMove.before[car][1] + v[1]
        /\ lastMove.returned[car][2] = lastMove.before[car][2] + v[2]
        /\ state = lastMove.before

\* The cell one step from p in direction d on the grid as a torus.
Neighbour(p, d) ==
  << (p[1] + to_vector(d)[1] + width) % width,
     (p[2] + to_vector(d)[2] + height) % height >>

\* C17: the outcome of a step. With the new head the wrapped-around
\* neighbour of the head in the direction taken (the current one on NONE):
\* the step is done exactly when the new head is a cell of the snake or the
\* snake covers the whole grid after the move; in the first case the reward
\* is -100 and the snake is unchanged, in the second the reward is 100 plus
\* 1 for the apple eaten; otherwise the reward is 1 and the snake one cell
\* longer when the new head is the apple's cell, and 0 with the length
\* unchanged when it is not.
C17_StepOutcome ==
  [][(outcome'.action # "" /\ outcome' # outcome) =>
       LET taken == IF outcome'.action = "NONE" THEN direction
                    ELSE outcome'.action
           new_head == Neighbour(snake[1], taken)
           bites == \E i \in 1..Len(snake) : snake[i] = new_head
           eats == new_head = apple
           fills == Points(snake') = Cells(width, height)
       IN  /\ ~outcome.done
           /\ outcome'.done <=> (bites \/ fills)
           /\ bites => (outcome'.reward = -100 /\ snake' = snake)
           /\ ~bites => snake'[1] = new_head
           /\ (~bites /\ fills) =>
                outcome'.reward = 100 + (IF eats THEN 1 ELSE 0)
           /\ (~bites /\ ~fills /\ eats) =>
                (outcome'.reward = 1 /\ Len(snake') = Len(snake) + 1)
           /\ (~bites /\ ~fills /\ ~eats) =>
                (outcome'.reward = 0 /\ Len(snake') = Len(snake))]_vars

\* C17 witness: an episode on a grid of at least four cells has been won by
\* eating the last apple with a head that wrapped around the grid's edge.
C17_Witness ==
  /\ outcome.done
  /\ outcome.reward = 101
  /\ width * height >= 4
  /\ Len(snake) = width * height
  /\ \/ snake[1][1] - snake[2][1] \notin {-1, 0, 1}
     \/ snake[1][2] - snake[2][2] \notin {-1, 0, 1}

\* The directions at a right angle to d.
Perpendicular(d) ==
  IF d \in {"LEFT", "RIGHT"} THEN {"UP", "DOWN"} ELSE {"LEFT", "RIGHT"}

\* C18: in every state of the environment actions returns three actions:
\* NONE and the two directions perpendicular to the snake's direction, so
\* neither the current direction nor its opposite.
C18_ActionsArePerpendicular ==
  pc = "snake" =>
    /\ direction \in Directions
    /\ Len(actions) = 3
    /\ Points(actions) = {"NONE"} \cup Perpendicular(direction)
    /\ direction \notin Points(actions)
    /\ \A d \in Directions :
         to_vector(d) = <<-to_vector(direction)[1], -to_vector(direction)[2]>>
           => d \notin Points(actions)

\* C18 witness: the snake, two cells or longer, is moving UP in a running
\* episode.
C18_Witness ==
  /\ pc = "snake"
  /\ Len(snake) >= 2
  /\ direction = "UP"
  /\ ~outcome.done

\* C19: train is additive: train(M) followed by train(N) leaves the agent
\* with the utilities, and the number of update applications, that one
\* train(M + N) from the same utilities leaves, for all M and N from 0 on.
C19_TrainAdditive ==
  pc = "both" => (utilities = whole.utilities /\ updates = whole.updates)

\* The snapshot d without the key x.
Without(d, x) == [k \in DOMAIN d \ {x} |-> d[k]]

\* C21: branch isolation: no step changes the snapshot or the assignment of
\* a backtrack call that is in progress, whatever forward checking prunes
\* for a value of the call or below it; and the snapshot handed to forward
\* checking for a value is the call's snapshot, as the call received it,
\* less the chosen variable, and the new assignment is the call's plus that
\* variable.
C21_BranchIsolation ==
  [][/\ \A k \in 1..Len(stack) :
          k <= Len(stack') =>
            /\ stack'[k].domains = stack[k].domains
            /\ stack'[k].assignment = stack[k].assignment
     /\ (pc = "search" /\ fcCalls' # fcCalls) =>
          /\ lastFC'.x = Top.variable
          /\ lastFC'.before = Without(Top.domains, Top.variable)
          /\ Without(lastFC'.assignment, Top.variable) = Top.assignment]_vars

\* C21 witness: a call is about to try its second value; forward checking
\* for its first value, or below it, pruned a domain that the call's
\* snapshot still holds in full.
C21_Witness ==
  /\ pc = "search"
  /\ stack # <<>>
  /\ Top.phase = "loop"
  /\ Top.idx = 2
  /\ Len(Top.ordered) >= 2
  /\ lastFC.called
  /\ Top.variable \in DOMAIN lastFC.assignment
  /\ lastFC.assignment[Top.variable] = Top.ordered[1]
  /\ \E n \in DOMAIN lastFC.after :
       lastFC.after[n] # lastFC.before[n] /\ lastFC.after[n] # Top.domains[n]

\* The assignment a with x assigned v.
Extended(a, x, v) ==
  [k \in DOMAIN a \cup {x} |-> IF k = x THEN v ELSE a[k]]

\* Forward checking or is_complete has been evaluated for the assignment a.
Tried(a) == a \in rejected \/ \E i \in 1..Len(checked) : checked[i] = a

\* C22: exploration order: every backtrack call that has chosen assigns the
\* variable minimum_remaining_values returns on the call's snapshot and
\* goes through the list least_restraining_values returns on the same
\* snapshot, from its first value on, one after the other: the values
\* before the current position have been tried, the later ones have not,
\* and the nested call works on the value at the current position. For A,
\* B, C with domains {0, 1} and the one constraint A != B the result is
\* A = 0, B = 1, C = 0.
C22_ExplorationOrder ==
  /\ pc = "search" =>
       \A k \in 1..Len(stack) :
         LET f == stack[k] IN
           f.phase \in {"loop", "wait"} =>
             /\ f.variable = minimum_remaining_values(variables, f.domains)
             /\ f.ordered =
                  least_restraining_values(constraints, f.variable, f.domains)
             /\ f.idx \in 1..(Len(f.ordered) + 1)
             /\ \A j \in 1..Len(f.ordered) :
                  LET tried ==
                        Tried(Extended(f.assignment, f.variable, f.ordered[j]))
                  IN  /\ j < f.idx => tried
                      /\ j > f.idx => ~tried
                      /\ (j = f.idx /\ f.phase = "loop") => ~tried
             /\ k < Len(stack) =>
                  /\ f.phase = "wait"
                  /\ stack[k + 1].assignment =
                       Extended(f.assignment, f.variable, f.ordered[f.idx])
  /\ (/\ pc = "done"
      /\ variables # <<>>
      /\ origDomains = [v \in Vars |-> {0, 1}]
      /\ origConstraints = << Binary("A", "B", "neq") >>) =>
       result = Some([v \in Vars |-> IF v = "B" THEN 1 ELSE 0])

\* C22 witness: a call has entered the branch of the larger of two values
\* first, because it restrains less, inside the branch of another variable.
C22_Witness ==
  /\ pc = "search"
  /\ Len(stack) >= 3
  /\ \E k \in 2..(Len(stack) - 1) :
       /\ stack[k].phase = "wait"
       /\ stack[k].idx = 1
       /\ Len(stack[k].ordered) = 2
       /\ stack[k].ordered[1] > stack[k].ordered[2]
       /\ stack[k + 1].assignment[stack[k].variable] = stack[k].ordered[1]

\* C23: termination and depth bound: solve returns in the end, at no time
\* are there more backtrack calls in progress than the problem has variables
\* plus one, and the assignment of the call at nesting depth d (the
\* outermost call is at depth 0) has exactly d keys.
C23_TerminationAndDepth ==
  /\ [](/\ Len(stack) <= Len(variables) + 1
        /\ \A k \in 1..Len(stack) :
             Cardinality(DOMAIN stack[k].assignment) = k - 1)
  /\ <>(pc = "done")

\* C23 witness: solve has returned an assignment of three variables after a
\* search that went as deep as it can and took back at least one value.
C23_Witness ==
  /\ pc = "done"
  /\ variables # <<>>
  /\ result # None
  /\ rejected # {}
  /\ \E i \in 1..Len(checked) : DOMAIN checked[i] = Vars

\* C24: forward checking invariant: for every backtrack call, every value
\* left in the snapshot domain of an unassigned variable satisfies, with the
\* call's assignment, every binary constraint joining that variable and an
\* assigned one, and the values of any two assigned variables satisfy every
\* binary constraint joining them.
C24_ForwardCheckingInvariant ==
  \A k \in 1..Len(stack) :
    LET f == stack[k] IN
      /\ \A n \in DOMAIN f.domains : \A w \in f.domains[n] :
           \A m \in DOMAIN f.assignment : \A i \in Joining(m, n) :
             ~Violates(constraints[i], m, f.assignment[m], w)
      /\ \A m \in DOMAIN f.assignment : \A n \in DOMAIN f.assignment :
           \A i \in Joining(m, n) :
             m # n =>
               ~Violates(constraints[i], m, f.assignment[m], f.assignment[n])

\* C24 witness: a call two levels down whose snapshot has a variable that
\* lost a value to forward checking and is joined to both assigned
\* variables.
C24_Witness ==
  /\ pc = "search"
  /\ Len(stack) = 3
  /\ Top.phase = "check"
  /\ \E n \in DOMAIN Top.domains :
       /\ Top.domains[n] # {}
       /\ Top.domains[n] # domains[n]
       /\ \A m \in DOMAIN Top.assignment : Joining(m, n) # {}

\* C30: the selection never meets an empty snapshot: solve raises nothing,
\* a backtrack call that found its assignment incomplete has a snapshot with
\* at least one key, and the variable a call has chosen is a key of the
\* call's snapshot.
C30_SelectionIsDefined ==
  /\ pc # "raised"
  /\ \A k \in 1..Len(stack) :
       LET f == stack[k] IN
         /\ f.phase = "select" => DOMAIN f.domains # {}
         /\ f.phase \in {"loop", "wait"} => f.variable \in DOMAIN f.domains

\* C30 witness: the call that holds all variables but one has found its
\* assignment incomplete and is about to choose from a snapshot of one key.
C30_Witness ==
  /\ pc = "search"
  /\ Len(stack) = Len(variables)
  /\ Len(stack) >= 2
  /\ Top.phase = "select"
  /\ Cardinality(DOMAIN Top.domains) = 1

\* The first position at which applying a unary constraint of cs leaves its
\* variable's domain empty (0 when there is none).
FirstEmptied(cs, doms) ==
  IF EmptiedAt(cs, doms) = {} THEN 0
  ELSE CHOOSE i \in EmptiedAt(cs, doms) : \A j \in EmptiedAt(cs, doms) : i <= j

\* C25: one_consistency stops at the first emptied domain: after a call that
\* returned false every domain is the domain before the call restricted by
\* the unary constraints up to the first one that emptied a domain, the
\* later ones having had no effect.
C25_StopsAtFirstEmptied ==
  (call.fn = "one_consistency" /\ pc = "once" /\ ~call.solvable) =>
    \A v \in DOMAIN domains :
      domains[v] = Restricted(call.constraints, call.domains[v], v,
                              FirstEmptied(call.constraints, call.domains))

\* C26: one_consistency is idempotent on a problem object: the call made
\* right after a first call leaves problem.domains and problem.constraints
\* as they were and returns what the first call returned.
C26_OneConsistencyIdempotent ==
  [][pc = "once" =>
       /\ domains' = domains
       /\ constraints' = constraints
       /\ call'.solvable = call.solvable]_vars

AdditionTrue ==
  /\ NumberOf(text.LHS0, digits) + NumberOf(text.LHS1, digits)
       = NumberOf(text.RHS, digits)
  /\ \A l, m \in DOMAIN digits : l # m => digits[l] # digits[m]
  /\ \A l \in DOMAIN digits : digits[l] \in 0..9
  /\ digits[text.LHS0[1]] # 0
  /\ digits[text.LHS1[1]] # 0
  /\ digits[text.RHS[1]] # 0

\* The positions of the constraints cs that join v and a variable that has a
\* value in e.
Binding(cs, v, e) ==
  {i \in 1..Len(cs) :
     \/ cs[i].vars[1] = v /\ cs[i].vars[2] \in DOMAIN e
     \/ cs[i].vars[2] = v /\ cs[i].vars[1] \in DOMAIN e}

RECURSIVE Extensible(_, _, _, _)
\* The values e extend to values for the variables of rest, each from its
\* domain in doms, that satisfy every constraint of cs between variables that
\* have a value.
Extensible(doms, cs, e, rest) ==
  IF rest = <<>> THEN TRUE
  ELSE LET v == rest[1]
           on == Binding(cs, v, e)
       IN  IF v \in DOMAIN e THEN Extensible(doms, cs, e, Tail(rest))
           ELSE \E x \in doms[v] :
                  /\ \A i \in on :
                       IF cs[i].vars[1] = v
                       THEN CryptCondition(cs[i], x, e[cs[i].vars[2]])
                       ELSE CryptCondition(cs[i], e[cs[i].vars[1]], x)
                  /\ Extensible(doms, cs, (v :> x) @@ e, Tail(rest))

\* An order in which to look for values: the letters, then the variables of
\* the first column and of every further column, then every variable as the
\* problem lists it.
SearchOrder ==
  LET l0 == Reversed(text.LHS0)
      l1 == Reversed(text.LHS1)
      r == Reversed(text.RHS)
      n == IF Len(l0) >= Len(l1) THEN Len(l0) ELSE Len(l1)
      column(i) ==
        << sum_var(r[i + 1], i), carry_var(i) >>
          \o (IF i + 2 <= Len(l0) /\ i + 2 <= Len(l1)
              THEN << combined_var(l1[i + 2], l0[i + 2], i) >>
              ELSE IF i + 2 <= Len(l0) THEN << sum_var(l0[i + 2], i) >>
              ELSE IF i + 2 <= Len(l1) THEN << sum_var(l1[i + 2], i) >>
              ELSE <<>>)
      RECURSIVE columns(_)
      columns(i) == IF i >= n THEN <<>> ELSE column(i) \o columns(i + 1)
  IN  SelectSeq(variables, LAMBDA v : v \in DOMAIN digits)
        \o SelectSeq(<< l1[1] \o l0[1] >> \o columns(0),
                     LAMBDA v : v \in DOMAIN domains)
        \o variables

\* C27: encoding completeness of from_text: digits that make the addition
\* true extend to values of the carry variables and of the auxiliary
\* variables, each inside the domain from_text declares for it, that satisfy
\* every constraint from_text generates, the letters keeping their digits
\* inside their declared domains.
C27_EncodingComplete ==
  (pc = "problem" /\ AdditionTrue) =>
    Extensible([v \in DOMAIN domains |->
                  IF v \in DOMAIN digits THEN domains[v] \cap {digits[v]}
                  ELSE domains[v]],
               constraints, << >>, SearchOrder)

\* C28: alphabeta is equivalent to minimax: called on the same game, state
\* and max_depth (-1 or more) it returns the tree value and the best action
\* at the root that minimax returns.
C28_AlphabetaIsMinimax ==
  pc = "alphabeta" =>
    /\ searched.alphabeta.value = searched.minimax.value
    /\ searched.alphabeta.action = searched.minimax.action

\* C28 witness: without a depth cutoff alphabeta has left out states that
\* minimax went through, three actions deep, and both return the second
\* action.
C28_Witness ==
  /\ pc = "alphabeta"
  /\ searched.max_depth = -1
  /\ searched.alphabeta.calls < searched.minimax.calls
  /\ searched.minimax.calls >= 8
  /\ searched.alphabeta.action = 2

====
